---- MODULE Spec2Model ----
(***************************************************************************)
(* ResumeMatchAI: the keyword matcher (utils/keywords_extraction.py) and   *)
(* the ATS scorer (utils/ats_scoring.py).                                  *)
(*                                                                         *)
(* Representation.                                                         *)
(*   - A Python str is a sequence of one-character strings; str methods    *)
(*     (lower, strip, split, count, in, startswith, rstrip) are operators  *)
(*     that compute on the characters.                                     *)
(*   - A Python float is an exact rational <<n, d>> with d > 0.  round(x,1)*)
(*     is the set of nearest tenths: on an exact tie both neighbours are   *)
(*     possible outcomes, since the binary value of the float decides.     *)
(*   - None is a sentinel (NoneText, NoneList).                            *)
(*   - list(set(xs)) has no defined order: it is kept as a set.            *)
(*   - spaCy's pipeline (nlp) and NLTK's PorterStemmer are libraries: nlp  *)
(*     is a tokenizer whose tagging behaviour is drawn from NlpModels and  *)
(*     which may raise; the stemmer is Porter's steps 1a and 1b, which is  *)
(*     all of the algorithm the model's vocabulary exercises.              *)
(***************************************************************************)
EXTENDS Integers, Sequences, FiniteSets, TLC

VARIABLES
    resume_text,      \* input: the resume text (a str, or None)
    job_keywords,     \* input: list of job keywords (or None)
    use_similarity,   \* input of enhanced_keyword_match_score
    personal_info,    \* input: dict, flat or nested under "personal_info"
    scores,           \* the unrounded component-score map: the local dict of
                      \* calculate_overall_score, the input of _generate_recommendations
    nlp_model,        \* which tagging behaviour the loaded spaCy model shows
    nlp_raises,       \* nlp_raises[i]: the i-th nlp(text) call of an operation raises
    job_info,         \* input: dict; its list values are references into heap
    heap,             \* the list objects: heap[id] is the content of list id
    process,          \* the interpreter: each module's global nlp, the spacy.load
                      \* calls made, the model handles the calls have used
    args,             \* the further arguments of the call, by parameter name
    pc,               \* "start" before the call, "done" after it
    result            \* what the call returned, or that it raised

vars == <<resume_text, job_keywords, use_similarity, personal_info, scores,
          nlp_model, nlp_raises, job_info, heap, process, args, pc, result>>

(* the modules that hold a global nlp; 0 is the nlp of a module not imported *)
Modules ==
    {"keywords_extraction", "ats_scoring", "resume_keywords"}

NotImported == 0

(* spacy.load('en_core_web_sm') returns a new model object on every call *)
SpacyLoad(p, module) ==
    [p EXCEPT !.loads = @ + 1, !.nlp[module] = p.loads + 1]

(* import utils.keywords_extraction: lines 7-13 run once, at the first import; *)
(* a missing model is downloaded and the load repeated                        *)
ImportKeywordsExtraction(p) ==
    IF p.nlp["keywords_extraction"] # NotImported
    THEN p
    ELSE SpacyLoad([p EXCEPT !.installed = TRUE], "keywords_extraction")

(* import utils.ats_scoring: line 12 imports keywords_extraction, lines 14-19 *)
(* load a model of its own                                                   *)
ImportAtsScoring(p) ==
    IF p.nlp["ats_scoring"] # NotImported
    THEN p
    ELSE SpacyLoad(ImportKeywordsExtraction(p), "ats_scoring")

(* import utils.resume_keywords: line 7 loads a model and has no except *)
ImportResumeKeywords(p) ==
    IF p.nlp["resume_keywords"] # NotImported
    THEN p
    ELSE SpacyLoad(p, "resume_keywords")

(* a call of nlp(text) through the global nlp of a module *)
UseNlp(p, module) ==
    [p EXCEPT !.used = @ \cup {p.nlp[module]}]

NewProcess(installed) ==
    [nlp |-> [m \in Modules |-> NotImported], loads |-> 0, installed |-> installed,
     used |-> {}, calls |-> 0]

(* a call with no further arguments *)
NoArgs ==
    [k \in {} |-> 0]

(* the process after app.py lines 12-14 *)
Imported ==
    ImportAtsScoring(ImportResumeKeywords(ImportKeywordsExtraction(NewProcess(TRUE))))

-----------------------------------------------------------------------------
(* Rationals for Python floats *)

RECURSIVE GCD(_, _)
GCD(a, b) ==
    IF b = 0 THEN a ELSE GCD(b, a % b)

Abs(n) ==
    IF n < 0 THEN -n ELSE n

Rat(n, d) ==
    LET g == GCD(Abs(n), d) IN IF g = 0 THEN <<0, 1>> ELSE <<n \div g, d \div g>>

RInt(n) ==
    <<n, 1>>

RAdd(x, y) ==
    Rat(x[1] * y[2] + y[1] * x[2], x[2] * y[2])

RSub(x, y) ==
    Rat(x[1] * y[2] - y[1] * x[2], x[2] * y[2])

RMul(x, y) ==
    Rat(x[1] * y[1], x[2] * y[2])

RDiv(x, n) ==
    Rat(x[1], x[2] * n)

RLt(x, y) ==
    x[1] * y[2] < y[1] * x[2]

RLe(x, y) ==
    x[1] * y[2] <= y[1] * x[2]

REq(x, y) ==
    x[1] * y[2] = y[1] * x[2]

RMin(x, y) ==
    IF RLe(x, y) THEN x ELSE y

RMax(x, y) ==
    IF RLe(x, y) THEN y ELSE x

RAbs(x) ==
    <<Abs(x[1]), x[2]>>

(* round(x, 1), in tenths: every integer t with |10x - t| <= 1/2 *)
Round1(x) ==
    LET f == (10 * x[1]) \div x[2]
    IN  {t \in {f, f + 1} : 2 * Abs(10 * x[1] - t * x[2]) <= x[2]}

-----------------------------------------------------------------------------
(* Python str operations *)

NoneText == <<"None">>
NoneList == <<<<"None">>>>

LowerLetters ==
    <<"a","b","c","d","e","f","g","h","i","j","k","l","m",
      "n","o","p","q","r","s","t","u","v","w","x","y","z">>

UpperLetters ==
    <<"A","B","C","D","E","F","G","H","I","J","K","L","M",
      "N","O","P","Q","R","S","T","U","V","W","X","Y","Z">>

Range(s) ==
    {s[i] : i \in DOMAIN s}

(* str.lower() on one character *)
LowerOf ==
    [c \in Range(UpperLetters) |-> LowerLetters[CHOOSE i \in 1..26 : UpperLetters[i] = c]]

Letters ==
    Range(LowerLetters) \cup Range(UpperLetters)

IsUpper(c) ==
    c \in DOMAIN LowerOf

IsLetter(c) ==
    c \in Letters

IsSpace(c) ==
    c \in {" ", "\n", "\t"}

LowerChar(c) ==
    IF IsUpper(c) THEN LowerOf[c] ELSE c

Lower(s) ==
    [i \in DOMAIN s |-> LowerChar(s[i])]

IsAlpha(s) ==
    Len(s) > 0 /\ \A i \in DOMAIN s : IsLetter(s[i])

(* a in b *)
IsSubstr(a, b) ==
    \E i \in 0..(Len(b) - Len(a)) : \A j \in DOMAIN a : b[i + j] = a[j]

StartsWith(s, p) ==
    Len(p) <= Len(s) /\ SubSeq(s, 1, Len(p)) = p

EndsWith(s, p) ==
    Len(p) <= Len(s) /\ SubSeq(s, Len(s) - Len(p) + 1, Len(s)) = p

RECURSIVE LStrip(_)
LStrip(s) ==
    IF s # <<>> /\ IsSpace(Head(s)) THEN LStrip(Tail(s)) ELSE s

RECURSIVE RStrip(_)
RStrip(s) ==
    IF s # <<>> /\ IsSpace(s[Len(s)]) THEN RStrip(SubSeq(s, 1, Len(s) - 1)) ELSE s

Strip(s) ==
    LStrip(RStrip(s))

(* s.rstrip(c) for a single character c *)
RECURSIVE RStripChar(_, _)
RStripChar(s, c) ==
    IF s # <<>> /\ s[Len(s)] = c THEN RStripChar(SubSeq(s, 1, Len(s) - 1), c) ELSE s

(* s.split(sep): pieces between occurrences of the character sep, empties kept *)
RECURSIVE SplitOn(_, _)
SplitOn(s, sep) ==
    IF \A i \in DOMAIN s : s[i] # sep
    THEN <<s>>
    ELSE LET i == CHOOSE j \in DOMAIN s : s[j] = sep /\ \A k \in 1..(j - 1) : s[k] # sep
         IN  <<SubSeq(s, 1, i - 1)>> \o SplitOn(SubSeq(s, i + 1, Len(s)), sep)

(* s.split(): runs of non-whitespace characters *)
RECURSIVE Split(_)
Split(s) ==
    LET t == LStrip(s)
    IN  IF t = <<>>
        THEN <<>>
        ELSE LET n == IF \E j \in DOMAIN t : IsSpace(t[j])
                      THEN (CHOOSE j \in DOMAIN t :
                                IsSpace(t[j]) /\ \A k \in 1..(j - 1) : ~IsSpace(t[k])) - 1
                      ELSE Len(t)
             IN  <<SubSeq(t, 1, n)>> \o Split(SubSeq(t, n + 1, Len(t)))

(* the positions at which kw occurs in text *)
Occurrences(text, kw) ==
    {i \in 1..(Len(text) - Len(kw) + 1) : \A j \in DOMAIN kw : text[i + j - 1] = kw[j]}

(* occurrences taken left to right from position i, none overlapping the last *)
RECURSIVE CountFrom(_, _, _)
CountFrom(occurrences, n, i) ==
    LET rest == {o \in occurrences : o >= i}
    IN  IF rest = {} THEN 0
        ELSE 1 + CountFrom(occurrences, n, (CHOOSE o \in rest : \A q \in rest : o <= q) + n)

(* text.count(kw): the number of non-overlapping occurrences *)
Count(text, kw) ==
    IF kw = <<>> THEN Len(text) + 1 ELSE CountFrom(Occurrences(text, kw), Len(kw), 1)

(* sep.join(parts) with a one-character sep *)
RECURSIVE Join(_, _)
Join(parts, sep) ==
    IF parts = <<>> THEN <<>>
    ELSE IF Len(parts) = 1 THEN parts[1]
    ELSE parts[1] \o <<sep>> \o Join(Tail(parts), sep)

(* Python's str ordering on lower-case words *)
OrdOf ==
    [c \in Range(LowerLetters) |-> CHOOSE i \in 1..26 : LowerLetters[i] = c]

Ord(c) ==
    IF c \in DOMAIN OrdOf THEN OrdOf[c] ELSE 0

RECURSIVE StrLess(_, _)
StrLess(a, b) ==
    IF b = <<>> THEN FALSE
    ELSE IF a = <<>> THEN TRUE
    ELSE IF Head(a) = Head(b) THEN StrLess(Tail(a), Tail(b))
    ELSE Ord(Head(a)) < Ord(Head(b))

(* not x: None and the empty str / list are falsy *)
FalsyText(x) ==
    x = <<>> \/ x = NoneText

FalsyList(x) ==
    x = <<>> \/ x = NoneList

-----------------------------------------------------------------------------
(* keywords_extraction.py: the tokenizer and get_keywords *)

min_len == 2

(* spaCy's STOP_WORDS, restricted to the stop words of the model's texts *)
stop_words ==
    { <<"t","h","e">>, <<"a","n","d">>, <<"w","i","t","h">>, <<"o","f">> }

common_lemmas ==
    { <<"b","e">>, <<"h","a","v","e">>, <<"d","o">>, <<"m","a","k","e">>, <<"g","e","t">>,
       <<"g","o">>, <<"k","n","o","w">>, <<"t","a","k","e">>, <<"s","e","e">>, <<"c","o","m","e">>,
       <<"w","a","n","t">>, <<"u","s","e">>, <<"f","i","n","d">>, <<"g","i","v","e">>,
       <<"t","e","l","l">>, <<"w","o","r","k">>, <<"c","a","l","l">>, <<"t","r","y">>,
       <<"a","s","k">>, <<"n","e","e","d">>, <<"f","e","e","l">>, <<"b","e","c","o","m","e">>,
       <<"l","e","a","v","e">>, <<"p","u","t">>, <<"m","e","a","n">>, <<"k","e","e","p">>,
       <<"l","e","t">>, <<"b","e","g","i","n">>, <<"s","e","e","m">>, <<"h","e","l","p">>,
       <<"t","a","l","k">>, <<"t","u","r","n">>, <<"s","t","a","r","t">>, <<"m","i","g","h","t">>,
       <<"s","h","o","w">>, <<"h","e","a","r">>, <<"p","l","a","y">>, <<"r","u","n">>,
       <<"m","o","v","e">>, <<"l","i","k","e">>, <<"l","i","v","e">>,
       <<"b","e","l","i","e","v","e">>, <<"b","r","i","n","g">>, <<"h","a","p","p","e","n">>,
       <<"w","r","i","t","e">>, <<"p","r","o","v","i","d","e">>, <<"s","i","t">>,
       <<"s","t","a","n","d">>, <<"l","o","s","e">>, <<"p","a","y">>, <<"m","e","e","t">>,
       <<"i","n","c","l","u","d","e">>, <<"c","o","n","t","i","n","u","e">>, <<"s","e","t">>,
       <<"l","e","a","r","n">>, <<"c","h","a","n","g","e">>, <<"l","e","a","d">>,
       <<"u","n","d","e","r","s","t","a","n","d">>, <<"w","a","t","c","h">>,
       <<"f","o","l","l","o","w">>, <<"s","t","o","p">>, <<"c","r","e","a","t","e">>,
       <<"s","p","e","a","k">>, <<"r","e","a","d">>, <<"a","l","l","o","w">>, <<"a","d","d">>,
       <<"s","p","e","n","d">>, <<"g","r","o","w">>, <<"o","p","e","n">>, <<"w","a","l","k">>,
       <<"w","i","n">>, <<"o","f","f","e","r">>, <<"r","e","m","e","m","b","e","r">>,
       <<"l","o","v","e">>, <<"c","o","n","s","i","d","e","r">>, <<"a","p","p","e","a","r">>,
       <<"b","u","y">>, <<"w","a","i","t">>, <<"s","e","r","v","e">>, <<"d","i","e">>,
       <<"s","e","n","d">>, <<"e","x","p","e","c","t">>, <<"b","u","i","l","d">>,
       <<"s","t","a","y">>, <<"f","a","l","l">>, <<"c","u","t">>, <<"r","e","a","c","h">>,
       <<"k","i","l","l">>, <<"r","e","m","a","i","n">>, <<"s","u","g","g","e","s","t">>,
       <<"r","a","i","s","e">>, <<"p","a","s","s">>, <<"s","e","l","l">>,
       <<"r","e","q","u","i","r","e">>, <<"r","e","p","o","r","t">>, <<"d","e","c","i","d","e">>,
       <<"p","u","l","l">> }


NlpModels == {"surface", "lemma"}

(* The lemma a tagger of kind m gives a word: "surface" keeps the word as    *)
(* written, "lemma" strips the inflection (plural -s, -ing, -ed).            *)
Lemmatize(m, w) ==
    LET l == Lower(w)
    IN  IF m = "surface" THEN w
        ELSE IF EndsWith(l, <<"i","n","g">>) /\ Len(l) > 5 THEN SubSeq(l, 1, Len(l) - 3)
        ELSE IF EndsWith(l, <<"e","d">>) /\ Len(l) > 4 THEN SubSeq(l, 1, Len(l) - 2)
        ELSE IF EndsWith(l, <<"s">>) /\ ~EndsWith(l, <<"s","s">>) /\ Len(l) > 3
             THEN SubSeq(l, 1, Len(l) - 1)
        ELSE l

(* doc = nlp(text): one token per whitespace-separated piece *)
nlp(m, text) ==
    LET ws == Split(text)
    IN  [i \in DOMAIN ws |->
            [text     |-> ws[i],
             is_alpha |-> IsAlpha(ws[i]),
             pos_     |-> IF ~IsAlpha(ws[i]) THEN "PUNCT"
                          ELSE IF Lower(ws[i]) \in stop_words THEN "ADP"
                          ELSE "NOUN",
             lemma_   |-> Lemmatize(m, ws[i])]]

(* sorted(list(set(xs))) *)
RECURSIVE SortedList(_)
SortedList(S) ==
    IF S = {} THEN <<>>
    ELSE LET lo == CHOOSE x \in S : \A y \in S \ {x} : StrLess(x, y)
         IN  <<lo>> \o SortedList(S \ {lo})

(* get_keywords raises exactly when it reaches nlp(text) and nlp raises *)
get_keywords_calls_nlp(text) ==
    ~(text = <<>> \/ text = NoneText) /\ Strip(text) # <<>>

KeepToken(token, minlen, with_nouns, with_stopwords) ==
    /\ ~(with_nouns /\ token.pos_ \notin {"NOUN", "PROPN", "VERB"})
    /\ token.is_alpha
    /\ ~(Len(Lower(token.text)) < minlen)
    /\ ~(~with_stopwords /\ Lower(token.text) \in stop_words)
    /\ Lower(token.lemma_) \notin common_lemmas

get_keywords(m, text, minlen, with_nouns, with_stopwords) ==
    IF ~get_keywords_calls_nlp(text)
    THEN <<>>
    ELSE LET doc == nlp(m, text)
             processed_tokens ==
                 {Lower(doc[i].lemma_) : i \in
                     {j \in DOMAIN doc : KeepToken(doc[j], minlen, with_nouns, with_stopwords)}}
         IN  SortedList(processed_tokens)

(* the tests of lines 127-133, which come before the stop-word test *)
ReachesStopwordTest(token) ==
    /\ token.pos_ \in {"NOUN", "PROPN", "VERB"}
    /\ token.is_alpha
    /\ ~(Len(Lower(token.text)) < min_len)

(* line 134 reads with_stopwords, a name that is neither a parameter of     *)
(* get_job_importance_keywords nor a global of the module: NameError at the *)
(* first token that gets there                                              *)
get_job_importance_keywords_raises(m, text) ==
    /\ get_keywords_calls_nlp(text)
    /\ \E token \in Range(nlp(m, text)) : ReachesStopwordTest(token)

(* the list returned when no token gets to line 134 *)
get_job_importance_keywords(m, text) ==
    IF ~get_keywords_calls_nlp(text)
    THEN <<>>
    ELSE LET doc == nlp(m, text)
             processed_tokens ==
                 {Lower(doc[i].lemma_) : i \in
                     {j \in DOMAIN doc : /\ ReachesStopwordTest(doc[j])
                                          /\ Lower(doc[j].lemma_) \notin common_lemmas}}
         IN  SortedList(processed_tokens)

-----------------------------------------------------------------------------
(* calculate_keyword_similarity *)

Vowels == {"a", "e", "i", "o", "u"}

HasVowel(s) ==
    \E i \in DOMAIN s : s[i] \in Vowels

DropLast(s, n) ==
    SubSeq(s, 1, Len(s) - n)

(* Porter step 1a: sses -> ss, ies -> i, ss -> ss, s -> "" *)
PorterStep1a(w) ==
    IF EndsWith(w, <<"s","s","e","s">>) THEN DropLast(w, 2)
    ELSE IF EndsWith(w, <<"i","e","s">>) THEN DropLast(w, 2)
    ELSE IF EndsWith(w, <<"s","s">>) THEN w
    ELSE IF EndsWith(w, <<"s">>) THEN DropLast(w, 1)
    ELSE w

(* after -ed / -ing is removed: at -> ate, bl -> ble, iz -> ize, and a       *)
(* doubled consonant other than l, s, z loses one letter                     *)
PorterFix1b(w) ==
    IF \E suf \in {<<"a","t">>, <<"b","l">>, <<"i","z">>} : EndsWith(w, suf)
    THEN w \o <<"e">>
    ELSE IF /\ Len(w) > 1
            /\ w[Len(w)] = w[Len(w) - 1]
            /\ w[Len(w)] \notin Vowels \cup {"l", "s", "z"}
         THEN DropLast(w, 1)
    ELSE w

(* Porter step 1b: -ed and -ing are removed when the stem has a vowel *)
PorterStep1b(w) ==
    IF EndsWith(w, <<"e","d">>) /\ HasVowel(DropLast(w, 2))
    THEN PorterFix1b(DropLast(w, 2))
    ELSE IF EndsWith(w, <<"i","n","g">>) /\ HasVowel(DropLast(w, 3))
    THEN PorterFix1b(DropLast(w, 3))
    ELSE w

(* ps.stem(word) *)
Stem(word) ==
    LET w == Lower(word)
    IN  IF Len(w) <= 2 THEN w ELSE PorterStep1b(PorterStep1a(w))

Max(S) ==
    CHOOSE x \in S : \A y \in S : y <= x

Min(S) ==
    CHOOSE x \in S : \A y \in S : x <= y

(* difflib.SequenceMatcher: the number of matched characters, found by taking *)
(* the longest common block (earliest in a, then earliest in b) and recursing *)
(* on the pieces to its left and to its right                                 *)
RECURSIVE MatchedChars(_, _)
MatchedChars(a, b) ==
    LET BlockAt(i, j, k) ==
            /\ i + k - 1 <= Len(a)
            /\ j + k - 1 <= Len(b)
            /\ SubSeq(a, i, i + k - 1) = SubSeq(b, j, j + k - 1)
        sizes == {k \in 1..Len(a) : \E i \in DOMAIN a, j \in DOMAIN b : BlockAt(i, j, k)}
    IN  IF sizes = {}
        THEN 0
        ELSE LET k == Max(sizes)
                 i == Min({x \in DOMAIN a : \E y \in DOMAIN b : BlockAt(x, y, k)})
                 j == Min({y \in DOMAIN b : BlockAt(i, y, k)})
             IN  k + MatchedChars(SubSeq(a, 1, i - 1), SubSeq(b, 1, j - 1))
                   + MatchedChars(SubSeq(a, i + k, Len(a)), SubSeq(b, j + k, Len(b)))

(* SequenceMatcher(None, a, b).ratio() = 2 M / T *)
SeqRatio(a, b) ==
    IF Len(a) + Len(b) = 0 THEN RInt(1) ELSE Rat(2 * MatchedChars(a, b), Len(a) + Len(b))

WordSet(k) ==
    Range(Split(k))

(* the chain of lines 159-192 with the sequence-ratio test ahead of the stem test *)
calculate_keyword_similarity_ratio_first(keyword1, keyword2) ==
    IF keyword1 = <<>> \/ keyword2 = <<>>
    THEN RInt(0)
    ELSE LET k1 == Strip(Lower(keyword1))
             k2 == Strip(Lower(keyword2))
             seq_similarity == SeqRatio(k1, k2)
             common == WordSet(k1) \cap WordSet(k2)
             longer == Max({Len(k1), Len(k2)})
             shorter == Min({Len(k1), Len(k2)})
         IN  IF k1 = k2 THEN RInt(1)
             ELSE IF RLt(Rat(85, 100), seq_similarity) THEN RMul(seq_similarity, Rat(8, 10))
             ELSE IF Stem(k1) = Stem(k2) THEN Rat(9, 10)
             ELSE IF common # {}
                  THEN RMul(Rat(Cardinality(common),
                                Max({Cardinality(WordSet(k1)), Cardinality(WordSet(k2))})),
                            Rat(7, 10))
             ELSE IF Len(k1) <= 5 /\ StartsWith(k2, k1) THEN Rat(6, 10)
             ELSE IF Len(k2) <= 5 /\ StartsWith(k1, k2) THEN Rat(6, 10)
             ELSE IF (IsSubstr(k1, k2) \/ IsSubstr(k2, k1)) /\ longer - shorter <= 4
                  THEN Rat(5, 10)
             ELSE RInt(0)

calculate_keyword_similarity(keyword1, keyword2) ==
    IF keyword1 = <<>> \/ keyword2 = <<>>
    THEN RInt(0)
    ELSE LET k1 == Strip(Lower(keyword1))
             k2 == Strip(Lower(keyword2))
             seq_similarity == SeqRatio(k1, k2)
             common == WordSet(k1) \cap WordSet(k2)
             longer == Max({Len(k1), Len(k2)})
             shorter == Min({Len(k1), Len(k2)})
         IN  IF k1 = k2 THEN RInt(1)
             ELSE IF Stem(k1) = Stem(k2) THEN Rat(9, 10)
             ELSE IF RLt(Rat(85, 100), seq_similarity) THEN RMul(seq_similarity, Rat(8, 10))
             ELSE IF common # {}
                  THEN RMul(Rat(Cardinality(common),
                                Max({Cardinality(WordSet(k1)), Cardinality(WordSet(k2))})),
                            Rat(7, 10))
             ELSE IF Len(k1) <= 5 /\ StartsWith(k2, k1) THEN Rat(6, 10)
             ELSE IF Len(k2) <= 5 /\ StartsWith(k1, k2) THEN Rat(6, 10)
             ELSE IF (IsSubstr(k1, k2) \/ IsSubstr(k2, k1)) /\ longer - shorter <= 4
                  THEN Rat(5, 10)
             ELSE RInt(0)

-----------------------------------------------------------------------------
(* find_similar_keywords *)

(* a default threshold of 0.5 *)
similarity_threshold_half == Rat(5, 10)

similarity_threshold == Rat(7, 10)

EmptyDict ==
    <<>>

TopMatches == 3

(* list.sort(key=similarity, reverse=True) is stable: x goes after every     *)
(* element whose similarity is at least its own                              *)
RECURSIVE InsertDesc(_, _)
InsertDesc(sorted, x) ==
    IF sorted = <<>> THEN <<x>>
    ELSE IF RLe(x[2], Head(sorted)[2]) THEN <<Head(sorted)>> \o InsertDesc(Tail(sorted), x)
    ELSE <<x>> \o sorted

(* the pairs left in the order they were appended *)
SortDesc_unsorted(pairs) ==
    pairs

RECURSIVE SortDesc(_)
SortDesc(pairs) ==
    IF pairs = <<>> THEN <<>>
    ELSE InsertDesc(SortDesc(DropLast(pairs, 1)), pairs[Len(pairs)])

(* the resume keywords similar to job_kw, best first, at most three *)
SimilarTo(job_kw, resume_keywords, threshold) ==
    LET pairs == [i \in DOMAIN resume_keywords |->
                     <<resume_keywords[i],
                       calculate_keyword_similarity(job_kw, resume_keywords[i])>>]
        Enough(p) == RLe(threshold, p[2])
        ranked == SortDesc(SelectSeq(pairs, Enough))
        names == [i \in DOMAIN ranked |-> ranked[i][1]]
    IN  SubSeq(names, 1, Min({TopMatches, Len(ranked)}))

(* matches: a dict, here a function from the job keywords that have a match, *)
(* filled by the loop over job_keywords                                       *)
RECURSIVE find_similar_keywords(_, _, _)
find_similar_keywords(jks, resume_keywords, threshold) ==
    IF jks = <<>>
    THEN EmptyDict
    ELSE LET matches == find_similar_keywords(DropLast(jks, 1), resume_keywords, threshold)
             job_kw == jks[Len(jks)]
             similar == SimilarTo(job_kw, resume_keywords, threshold)
         IN  IF similar = <<>> THEN matches ELSE (job_kw :> similar) @@ matches

-----------------------------------------------------------------------------
(* categorize_keywords *)

technical_skills ==
    << <<"p","y","t","h","o","n">>, <<"j","a","v","a">>,
       <<"j","a","v","a","s","c","r","i","p","t">>, <<"t","y","p","e","s","c","r","i","p","t">>,
       <<"c","+","+">>, <<"c","#">>, <<"p","h","p">>, <<"r","u","b","y">>, <<"g","o">>,
       <<"r","u","s","t">>, <<"a","l","g","o","r","i","t","h","m">>,
       <<"d","a","t","a"," ","s","t","r","u","c","t","u","r","e">>, <<"a","p","i">>,
       <<"d","a","t","a","b","a","s","e">>, <<"s","q","l">>, <<"n","o","s","q","l">>,
       <<"m","o","n","g","o","d","b">>, <<"p","o","s","t","g","r","e","s","q","l">>,
       <<"m","a","c","h","i","n","e"," ","l","e","a","r","n","i","n","g">>,
       <<"d","e","e","p"," ","l","e","a","r","n","i","n","g">>,
       <<"n","e","u","r","a","l"," ","n","e","t","w","o","r","k">>,
       <<"a","r","t","i","f","i","c","i","a","l"," ","i","n","t","e","l","l","i","g","e","n","c","e">>,
       <<"a","i">>, <<"c","o","m","p","u","t","e","r"," ","v","i","s","i","o","n">>,
       <<"n","l","p">>,
       <<"n","a","t","u","r","a","l"," ","l","a","n","g","u","a","g","e"," ","p","r","o","c","e","s","s","i","n","g">>,
       <<"d","a","t","a"," ","s","c","i","e","n","c","e">>,
       <<"a","n","a","l","y","t","i","c","s">> >>

tools_technologies ==
    << <<"d","o","c","k","e","r">>, <<"k","u","b","e","r","n","e","t","e","s">>, <<"a","w","s">>,
       <<"a","z","u","r","e">>, <<"g","c","p">>, <<"g","i","t">>, <<"j","e","n","k","i","n","s">>,
       <<"c","i","/","c","d">>, <<"a","g","i","l","e">>, <<"s","c","r","u","m">>,
       <<"l","i","n","u","x">>, <<"w","i","n","d","o","w","s">>, <<"r","e","a","c","t">>,
       <<"a","n","g","u","l","a","r">>, <<"v","u","e">>, <<"n","o","d","e">>,
       <<"d","j","a","n","g","o">>, <<"f","l","a","s","k">>, <<"s","p","r","i","n","g">>,
       <<"t","e","n","s","o","r","f","l","o","w">>, <<"p","y","t","o","r","c","h">>,
       <<"p","a","n","d","a","s">>, <<"n","u","m","p","y">>,
       <<"s","c","i","k","i","t","-","l","e","a","r","n">>, <<"j","u","p","y","t","e","r">> >>

soft_skills ==
    << <<"c","o","m","m","u","n","i","c","a","t","i","o","n">>,
       <<"l","e","a","d","e","r","s","h","i","p">>, <<"t","e","a","m","w","o","r","k">>,
       <<"p","r","o","b","l","e","m"," ","s","o","l","v","i","n","g">>,
       <<"c","r","i","t","i","c","a","l"," ","t","h","i","n","k","i","n","g">>,
       <<"t","i","m","e"," ","m","a","n","a","g","e","m","e","n","t">>,
       <<"a","d","a","p","t","a","b","i","l","i","t","y">>,
       <<"c","r","e","a","t","i","v","i","t","y">>,
       <<"c","o","l","l","a","b","o","r","a","t","i","o","n">>, <<"e","m","p","a","t","h","y">>,
       <<"p","r","o","j","e","c","t"," ","m","a","n","a","g","e","m","e","n","t">>,
       <<"d","e","c","i","s","i","o","n"," ","m","a","k","i","n","g">>,
       <<"c","o","n","f","l","i","c","t"," ","r","e","s","o","l","u","t","i","o","n">>,
       <<"m","e","n","t","o","r","i","n","g">> >>

education_terms ==
    << <<"b","a","c","h","e","l","o","r">>, <<"m","a","s","t","e","r">>, <<"p","h","d">>,
       <<"d","e","g","r","e","e">>, <<"u","n","i","v","e","r","s","i","t","y">>,
       <<"c","o","l","l","e","g","e">>, <<"g","r","a","d","u","a","t","e">>,
       <<"u","n","d","e","r","g","r","a","d","u","a","t","e">>, <<"d","i","p","l","o","m","a">>,
       <<"c","e","r","t","i","f","i","c","a","t","e">>, <<"e","d","u","c","a","t","i","o","n">>,
       <<"q","u","a","l","i","f","i","c","a","t","i","o","n">> >>

certifications ==
    << <<"c","p","a">>, <<"c","f","a">>, <<"p","m","p">>,
       <<"a","w","s"," ","c","e","r","t","i","f","i","e","d">>, <<"a","z","u","r","e">>,
       <<"g","c","p">>, <<"c","i","s","s","p">>, <<"c","e","h">>, <<"c","o","m","p","t","i","a">>,
       <<"c","c","n","a">>, <<"c","c","n","p">>, <<"m","c","s","a">>, <<"m","c","s","e">>,
       <<"o","r","a","c","l","e">>, <<"r","e","d"," ","h","a","t">>, <<"i","t","i","l">> >>

languages ==
    << <<"e","n","g","l","i","s","h">>, <<"f","r","e","n","c","h">>,
       <<"s","p","a","n","i","s","h">>, <<"g","e","r","m","a","n">>,
       <<"i","t","a","l","i","a","n">>, <<"p","o","r","t","u","g","u","e","s","e">>,
       <<"c","h","i","n","e","s","e">>, <<"m","a","n","d","a","r","i","n">>,
       <<"j","a","p","a","n","e","s","e">>, <<"k","o","r","e","a","n">>,
       <<"a","r","a","b","i","c">>, <<"h","i","n","d","i">> >>

Categories ==
    <<"technical_skills", "soft_skills", "tools_technologies", "industry_terms",
      "education_terms", "certifications", "languages", "other">>

AnyIn(table, kw_lower) ==
    \E i \in DOMAIN table : IsSubstr(table[i], kw_lower)

(* the chain of line 269 with its first two tests exchanged *)
CategoryOf_tools_first(keyword) ==
    LET kw_lower == Lower(keyword)
    IN  IF AnyIn(tools_technologies, kw_lower) THEN "tools_technologies"
        ELSE IF AnyIn(technical_skills, kw_lower) THEN "technical_skills"
        ELSE IF AnyIn(soft_skills, kw_lower) THEN "soft_skills"
        ELSE IF AnyIn(education_terms, kw_lower) THEN "education_terms"
        ELSE IF AnyIn(certifications, kw_lower) THEN "certifications"
        ELSE IF AnyIn(languages, kw_lower) THEN "languages"
        ELSE "other"

CategoryOf(keyword) ==
    LET kw_lower == Lower(keyword)
    IN  IF AnyIn(technical_skills, kw_lower) THEN "technical_skills"
        ELSE IF AnyIn(tools_technologies, kw_lower) THEN "tools_technologies"
        ELSE IF AnyIn(soft_skills, kw_lower) THEN "soft_skills"
        ELSE IF AnyIn(education_terms, kw_lower) THEN "education_terms"
        ELSE IF AnyIn(certifications, kw_lower) THEN "certifications"
        ELSE IF AnyIn(languages, kw_lower) THEN "languages"
        ELSE "other"

(* categories[c].append(keyword), keyword by keyword *)
RECURSIVE categorize_keywords(_)
categorize_keywords(keywords) ==
    IF keywords = <<>>
    THEN [c \in Range(Categories) |-> <<>>]
    ELSE LET categories == categorize_keywords(DropLast(keywords, 1))
             keyword == keywords[Len(keywords)]
             c == CategoryOf(keyword)
         IN  [categories EXCEPT ![c] = Append(@, keyword)]

-----------------------------------------------------------------------------
(* enhanced_keyword_match_score *)

(* sum(len(d[k]) for k in S) *)
RECURSIVE SumLen(_, _)
SumLen(d, S) ==
    IF S = {} THEN 0
    ELSE LET x == CHOOSE y \in S : TRUE IN Len(d[x]) + SumLen(d, S \ {x})

(* the variant list without the gerund of line 335 *)
variations_without_gerund(keyword_lower) ==
    { keyword_lower,
      keyword_lower \o <<"s">>,
      keyword_lower \o <<"e","s">>,
      keyword_lower \o <<"i","n","g">>,
      keyword_lower \o <<"e","d">>,
      keyword_lower \o <<"e","r">>,
      keyword_lower \o <<"e","s","t">> }

(* the variant list of a job keyword, lines 329-338 *)
variations(keyword_lower) ==
    { keyword_lower,
      keyword_lower \o <<"s">>,
      keyword_lower \o <<"e","s">>,
      keyword_lower \o <<"i","n","g">>,
      keyword_lower \o <<"e","d">>,
      RStripChar(keyword_lower, "e") \o <<"i","n","g">>,
      keyword_lower \o <<"e","r">>,
      keyword_lower \o <<"e","s","t">> }

IsExactMatch(keyword, resume_text_lower) ==
    \/ IsSubstr(Lower(keyword), resume_text_lower)
    \/ \E var \in variations(Lower(keyword)) : IsSubstr(var, resume_text_lower)

(* exact_matches = list(set(...)): the job keywords found, duplicates removed *)
ExactMatches(jks, text) ==
    {k \in Range(jks) : IsExactMatch(k, Lower(text))}

(* total_score without the cap of line 365 *)
TotalScore_uncapped(jks, exact_matches, similar_matches) ==
    LET counted == {k \in DOMAIN similar_matches : k \notin exact_matches}
        total_similar_weight == SumLen(similar_matches, counted)
        similar_score == Rat(8 * total_similar_weight, 10)
    IN  RDiv(RAdd(RInt(Cardinality(exact_matches)),
                  IF total_similar_weight > 0 THEN similar_score ELSE RInt(0)),
             Len(jks))

(* total_score, lines 351-365, as a fraction of 1; the 0.8 per similar match *)
(* is counted in tenths                                                      *)
TotalScore(jks, exact_matches, similar_matches) ==
    LET counted == {k \in DOMAIN similar_matches : k \notin exact_matches}
        total_similar_weight == SumLen(similar_matches, counted)
        similar_score == Rat(8 * total_similar_weight, 10)
    IN  RMin(RDiv(RAdd(RInt(Cardinality(exact_matches)),
                       IF total_similar_weight > 0 THEN similar_score ELSE RInt(0)),
                  Len(jks)),
             RInt(1))

(* one entry of categorized_matches, lines 373-385 *)
CategoryMatch(job_cat_keywords, exact_matches, similar_matches) ==
    LET IsExact(k) == k \in exact_matches
        exact_cat == SelectSeq(job_cat_keywords, IsExact)
        similar_keys == {k \in DOMAIN similar_matches : k \in Range(job_cat_keywords)}
        similar_cat == [k \in similar_keys |-> similar_matches[k]]
        cat_score == RDiv(RAdd(RInt(Len(exact_cat)),
                               Rat(8 * SumLen(similar_matches, similar_keys), 10)),
                          Len(job_cat_keywords))
    IN  [score          |-> RMin(RMul(cat_score, RInt(100)), RInt(100)),
         exact_matches  |-> exact_cat,
         similar_matches |-> similar_cat,
         total_keywords |-> Len(job_cat_keywords)]

CategorizedMatches(job_categories, exact_matches, similar_matches) ==
    LET Matched(c) ==
            /\ job_categories[c] # <<>>
            /\ \/ \E i \in DOMAIN job_categories[c] : job_categories[c][i] \in exact_matches
               \/ \E k \in DOMAIN similar_matches : k \in Range(job_categories[c])
    IN  [c \in {d \in DOMAIN job_categories : Matched(d)}
            |-> CategoryMatch(job_categories[c], exact_matches, similar_matches)]

(* the call raises: resume_text.lower() on None, or nlp raising in get_keywords *)
enhanced_keyword_match_score_raises(jks, text, nlp_fails) ==
    /\ ~FalsyList(jks)
    /\ \/ text = NoneText
       \/ get_keywords_calls_nlp(text) /\ nlp_fails

(* the dictionary returned once the three intermediate results are known *)
MatchResult(jks, resume_keywords, exact_matches, similar_matches) ==
    LET total_score == TotalScore(jks, exact_matches, similar_matches)
        job_categories == categorize_keywords(jks)
        resume_categories == categorize_keywords(resume_keywords)
    IN  [score                |-> RMul(total_score, RInt(100)),
         exact_matches        |-> exact_matches,
         similar_matches      |-> similar_matches,
         total_job_keywords   |-> Len(jks),
         matched_job_keywords |-> Cardinality(exact_matches)
                                    + Cardinality(DOMAIN similar_matches),
         match_details        |-> [exact_count   |-> Cardinality(exact_matches),
                                   similar_count |-> Cardinality(DOMAIN similar_matches)],
         categorized_matches  |-> CategorizedMatches(job_categories, exact_matches,
                                                     similar_matches),
         keyword_analysis     |-> [job_categories    |-> job_categories,
                                   resume_categories |-> resume_categories]]

(* resume_keywords, exact_matches and similar_matches are each computed once *)
(* and then used in the result                                               *)
enhanced_keyword_match_score(m, jks, text, use_sim) ==
    IF FalsyList(jks)
    THEN [score                |-> RInt(0),
          exact_matches        |-> {},
          similar_matches      |-> EmptyDict,
          total_job_keywords   |-> 0,
          matched_job_keywords |-> 0,
          match_details        |-> [exact_count |-> 0, similar_count |-> 0]]
    ELSE CHOOSE r \in
           UNION {{MatchResult(jks, resume_keywords, exact_matches, similar_matches) :
                      similar_matches \in
                          {IF use_sim
                           THEN find_similar_keywords(jks, resume_keywords,
                                                      similarity_threshold)
                           ELSE EmptyDict}} :
                   resume_keywords \in {get_keywords(m, text, min_len, TRUE, FALSE)},
                   exact_matches \in {ExactMatches(jks, text)}} : TRUE

-----------------------------------------------------------------------------
(* ats_scoring.py: ATSScorer *)

Components ==
    <<"keyword_match", "keyword_density", "personal_info", "skills_alignment",
      "experience_match", "education_match", "formatting">>

(* the weights with those of keyword_density and skills_alignment exchanged *)
WEIGHTS_exchanged ==
    [keyword_match    |-> Rat(40, 100),
     keyword_density  |-> Rat(10, 100),
     personal_info    |-> Rat(15, 100),
     skills_alignment |-> Rat(15, 100),
     experience_match |-> Rat(10, 100),
     education_match  |-> Rat(5, 100),
     formatting       |-> Rat(5, 100)]

WEIGHTS ==
    [keyword_match    |-> Rat(40, 100),
     keyword_density  |-> Rat(15, 100),
     personal_info    |-> Rat(15, 100),
     skills_alignment |-> Rat(10, 100),
     experience_match |-> Rat(10, 100),
     education_match  |-> Rat(5, 100),
     formatting       |-> Rat(5, 100)]

SECTION_experience ==
    << <<"e","x","p","e","r","i","e","n","c","e">>,
       <<"w","o","r","k"," ","e","x","p","e","r","i","e","n","c","e">>,
       <<"p","r","o","f","e","s","s","i","o","n","a","l"," ","e","x","p","e","r","i","e","n","c","e">>,
       <<"e","m","p","l","o","y","m","e","n","t">>,
       <<"w","o","r","k"," ","h","i","s","t","o","r","y">>,
       <<"c","a","r","e","e","r"," ","h","i","s","t","o","r","y">>,
       <<"p","r","o","f","e","s","s","i","o","n","a","l"," ","b","a","c","k","g","r","o","u","n","d">> >>

SECTION_education ==
    << <<"e","d","u","c","a","t","i","o","n">>,
       <<"a","c","a","d","e","m","i","c"," ","b","a","c","k","g","r","o","u","n","d">>,
       <<"q","u","a","l","i","f","i","c","a","t","i","o","n","s">>,
       <<"d","e","g","r","e","e","s">>,
       <<"c","e","r","t","i","f","i","c","a","t","i","o","n","s">>,
       <<"a","c","a","d","e","m","i","c"," ","c","r","e","d","e","n","t","i","a","l","s">> >>

SECTION_skills ==
    << <<"s","k","i","l","l","s">>,
       <<"t","e","c","h","n","i","c","a","l"," ","s","k","i","l","l","s">>,
       <<"c","o","r","e"," ","c","o","m","p","e","t","e","n","c","i","e","s">>,
       <<"e","x","p","e","r","t","i","s","e">>,
       <<"p","r","o","f","i","c","i","e","n","c","i","e","s">>,
       <<"a","b","i","l","i","t","i","e","s">>,
       <<"c","o","m","p","e","t","e","n","c","i","e","s">> >>

SECTION_summary ==
    << <<"s","u","m","m","a","r","y">>,
       <<"p","r","o","f","e","s","s","i","o","n","a","l"," ","s","u","m","m","a","r","y">>,
       <<"o","b","j","e","c","t","i","v","e">>, <<"p","r","o","f","i","l","e">>,
       <<"c","a","r","e","e","r"," ","o","b","j","e","c","t","i","v","e">>,
       <<"p","e","r","s","o","n","a","l"," ","s","t","a","t","e","m","e","n","t">> >>

SECTION_KEYWORDS ==
    [experience |-> SECTION_experience,
     education  |-> SECTION_education,
     skills     |-> SECTION_skills,
     summary    |-> SECTION_summary]

SectionTypes == <<"experience", "education", "skills", "summary">>

(* all_section_keywords, lines 292-294 *)
all_section_keywords ==
    SECTION_experience \o SECTION_education \o SECTION_skills \o SECTION_summary

(* the loop of _extract_section_text from line i on; the section_text so far *)
(* is acc                                                                    *)
RECURSIVE ScanLines(_, _, _, _, _)
ScanLines(lines, section_keywords, i, in_section, acc) ==
    IF i > Len(lines)
    THEN acc
    ELSE LET line == lines[i]
             line_lower == Strip(Lower(line))
         IN  IF AnyIn(section_keywords, line_lower)
             THEN ScanLines(lines, section_keywords, i + 1, TRUE, acc)
             ELSE IF in_section /\ Strip(line) # <<>>
                  THEN IF AnyIn(all_section_keywords, line_lower)
                       THEN acc
                       ELSE ScanLines(lines, section_keywords, i + 1, in_section,
                                      Append(acc, line))
             ELSE ScanLines(lines, section_keywords, i + 1, in_section, acc)

(* resume_text.split('\n') raises AttributeError on None *)
extract_section_text_raises(text) ==
    text = NoneText

(* the text of the lines from the first header of the section on, headers   *)
(* included, up to the next header of another section                       *)
extract_section_text_with_header(text, section_type) ==
    LET section_keywords == IF section_type \in DOMAIN SECTION_KEYWORDS
                            THEN SECTION_KEYWORDS[section_type]
                            ELSE <<>>
        lines == SplitOn(text, "\n")
        kept == ScanLines(lines, section_keywords, 1, FALSE, <<>>)
        headers == SelectSeq(lines, LAMBDA line :
                                AnyIn(section_keywords, Strip(Lower(line))))
    IN  Join(headers \o kept, " ")

extract_section_text(text, section_type) ==
    LET section_keywords == IF section_type \in DOMAIN SECTION_KEYWORDS
                            THEN SECTION_KEYWORDS[section_type]
                            ELSE <<>>
    IN  Join(ScanLines(SplitOn(text, "\n"), section_keywords, 1, FALSE, <<>>), " ")

(* sum(1 for keyword in keywords if keyword.lower() in text_lower) *)
CountFound(keywords, text_lower) ==
    Cardinality({i \in DOMAIN keywords : IsSubstr(Lower(keywords[i]), text_lower)})

calculate_keyword_match_score_raises(text, jks, nlp_fails) ==
    /\ ~(FalsyList(jks) \/ FalsyText(text))
    /\ enhanced_keyword_match_score_raises(jks, text, nlp_fails)

(* the match percentage returned without the rescaling of lines 120-121 *)
calculate_keyword_match_score_unscaled(m, text, jks) ==
    IF FalsyList(jks) \/ FalsyText(text)
    THEN RInt(0)
    ELSE RMin(enhanced_keyword_match_score(m, jks, text, TRUE).score, RInt(100))

calculate_keyword_match_score(m, text, jks) ==
    IF FalsyList(jks) \/ FalsyText(text)
    THEN RInt(0)
    ELSE CHOOSE r \in
           {RMin(IF RLt(RInt(80), match_percentage)
                 THEN RAdd(RInt(80), RMul(RSub(match_percentage, RInt(80)), Rat(5, 10)))
                 ELSE match_percentage,
                 RInt(100)) :
              match_percentage \in {enhanced_keyword_match_score(m, jks, text, TRUE).score}} :
           TRUE

(* keyword_count, lines 136-140: every occurrence of every list entry *)
RECURSIVE KeywordCount(_, _)
KeywordCount(jks, resume_lower) ==
    IF jks = <<>> THEN 0
    ELSE Count(resume_lower, Lower(Head(jks))) + KeywordCount(Tail(jks), resume_lower)

(* the optimal band of line 145 scored 95 instead of 100 *)
density_score_band95(density) ==
    IF RLe(RInt(3), density) /\ RLe(density, RInt(8))
    THEN RInt(95)
    ELSE IF RLt(density, RInt(3))
    THEN RMul(RDiv(density, 3), RInt(100))
    ELSE RMax(RInt(0), RSub(RInt(100), RMul(RSub(density, RInt(8)), RInt(10))))

(* lines 145-152: the score of a density *)
density_score(density) ==
    IF RLe(RInt(3), density) /\ RLe(density, RInt(8))
    THEN RInt(100)
    ELSE IF RLt(density, RInt(3))
    THEN RMul(RDiv(density, 3), RInt(100))
    ELSE RMax(RInt(0), RSub(RInt(100), RMul(RSub(density, RInt(8)), RInt(10))))

calculate_keyword_density_score(text, jks) ==
    IF FalsyList(jks) \/ FalsyText(text)
    THEN RInt(0)
    ELSE LET total_words == Len(Split(text))
         IN  IF total_words = 0
             THEN RInt(0)
             ELSE LET keyword_count ==
                          CHOOSE n \in {KeywordCount(jks, resume_lower) :
                                           resume_lower \in {Lower(text)}} : TRUE
                      density == Rat(keyword_count * 100, total_words)
                  IN  density_score(density)

(* dict.get(field): None when the key is missing *)
Get(d, field) ==
    IF field \in DOMAIN d THEN d[field] ELSE "None"

(* truth value of a str-or-None field *)
Truthy(v) ==
    v \notin {"None", ""}

required_fields == <<"name", "email", "phone_number">>

optional_fields == <<"province", "major_city">>

(* the score without the cap of line 182 *)
calculate_personal_info_score_uncapped(info) ==
    LET required_score ==
            20 * Cardinality({i \in DOMAIN required_fields : Truthy(Get(info, required_fields[i]))})
        optional_score ==
            20 * Cardinality({i \in DOMAIN optional_fields : Truthy(Get(info, optional_fields[i]))})
        total_score == required_score + optional_score
    IN  RInt(IF required_score = 60 /\ optional_score = 40
             THEN total_score + 10
             ELSE total_score)

calculate_personal_info_score(info) ==
    LET required_score ==
            20 * Cardinality({i \in DOMAIN required_fields : Truthy(Get(info, required_fields[i]))})
        optional_score ==
            20 * Cardinality({i \in DOMAIN optional_fields : Truthy(Get(info, optional_fields[i]))})
        total_score == required_score + optional_score
        with_bonus == IF required_score = 60 /\ optional_score = 40
                      THEN total_score + 10
                      ELSE total_score
    IN  RMin(RInt(with_bonus), RInt(100))

(* for keyword in job_keywords raises TypeError on None, once the section is found *)
section_score_raises(text, jks, section_type) ==
    \/ extract_section_text_raises(text)
    \/ extract_section_text(text, section_type) # <<>> /\ jks = NoneList

calculate_skills_alignment_score(text, jks) ==
    LET skills_section == extract_section_text(text, "skills")
        matched_skills == CountFound(jks, Lower(skills_section))
    IN  IF skills_section = <<>> THEN RInt(30)
        ELSE IF matched_skills = 0 THEN RInt(20)
        ELSE IF matched_skills <= 3 THEN RInt(60)
        ELSE IF matched_skills <= 6 THEN RInt(80)
        ELSE RInt(95)

ContainsAnyTerm(k, terms) ==
    \E t \in terms : IsSubstr(t, Lower(k))

experience_terms ==
    { <<"e","x","p","e","r","i","e","n","c","e">>, <<"y","e","a","r">>,
      <<"s","k","i","l","l">>, <<"p","r","o","j","e","c","t">>, <<"t","e","a","m">> }

calculate_experience_match_score(text, jks) ==
    LET experience_section == extract_section_text(text, "experience")
        Relevant(k) == ContainsAnyTerm(k, experience_terms)
        relevant_keywords == SelectSeq(jks, Relevant)
        matched_exp == CountFound(relevant_keywords, Lower(experience_section))
    IN  IF experience_section = <<>> THEN RInt(40)
        ELSE IF Len(relevant_keywords) = 0 THEN RInt(70)
        ELSE RMin(RMul(Rat(matched_exp, Len(relevant_keywords)), RInt(100)), RInt(100))

education_required_terms ==
    { <<"d","e","g","r","e","e">>, <<"e","d","u","c","a","t","i","o","n">>,
      <<"u","n","i","v","e","r","s","i","t","y">>, <<"c","o","l","l","e","g","e">>,
      <<"g","r","a","d","u","a","t","e">> }

calculate_education_match_score(text, jks) ==
    LET education_section == extract_section_text(text, "education")
        Relevant(k) == ContainsAnyTerm(k, education_required_terms)
        edu_keywords == SelectSeq(jks, Relevant)
        matched_edu == CountFound(edu_keywords, Lower(education_section))
    IN  IF education_section = <<>> THEN RInt(50)
        ELSE IF edu_keywords = <<>> THEN RInt(75)
        ELSE RMin(RMul(Rat(matched_edu, Len(edu_keywords)), RInt(100)), RInt(100))

(* line 259; the two non-ASCII indicators are the characters the source file *)
(* holds, each written by its code point                                     *)
bullet_indicators ==
    { <<"U+00E2", "U+20AC", "U+00A2">>, <<"-">>, <<"*">>, <<"U+00C2", "U+00B7">> }

(* len(s.split()): the number of runs of non-whitespace characters *)
WordCount(s) ==
    Cardinality({i \in DOMAIN s : ~IsSpace(s[i]) /\ (i = 1 \/ IsSpace(s[i - 1]))})

(* lines 244-271: the score before the clamp of line 273 *)
formatting_points(text) ==
    LET sections_found ==
            Cardinality({i \in DOMAIN SectionTypes :
                            AnyIn(SECTION_KEYWORDS[SectionTypes[i]], Lower(text))})
        section_bonus == IF sections_found >= 4 THEN 10
                         ELSE IF sections_found >= 2 THEN 5
                         ELSE 0
        has_bullets == \E indicator \in bullet_indicators : IsSubstr(indicator, text)
        bullet_bonus == IF has_bullets THEN 5 ELSE 0
        word_count == WordCount(text)
        length_adjust == IF word_count < 100 THEN -20
                         ELSE IF word_count > 800 THEN -10
                         ELSE IF 300 <= word_count /\ word_count <= 600 THEN 5
                         ELSE 0
    IN  100 + section_bonus + bullet_bonus + length_adjust

(* the score returned without the clamp of line 273 *)
calculate_formatting_score_unclamped(text) ==
    RInt(formatting_points(text))

calculate_formatting_score(text) ==
    RMax(RInt(0), RMin(RInt(formatting_points(text)), RInt(100)))

(* sum(scores[k] * WEIGHTS[k] for k in scores) *)
RECURSIVE WeightedSumOf(_, _)
WeightedSumOf(sc, keys) ==
    IF keys = {} THEN RInt(0)
    ELSE LET k == CHOOSE x \in keys : TRUE
         IN  RAdd(RMul(sc[k], WEIGHTS[k]), WeightedSumOf(sc, keys \ {k}))

WeightedSum(sc) ==
    WeightedSumOf(sc, DOMAIN sc)

-----------------------------------------------------------------------------
(* _generate_recommendations *)

(* A recommendation is its text before the first ':' (prefix: the marker and *)
(* the priority word), which message it is (id), and the keywords it lists.  *)
Rec(prefix, id, keywords) ==
    [prefix |-> prefix, id |-> id, keywords |-> keywords]

CRITICAL == "siren CRITICAL"
HIGH == "chart HIGH"
MEDIUM == "wrench MEDIUM"
LOW == "bulb LOW"
OVERALL_SIREN == "siren OVERALL"
OVERALL_BARS == "bars OVERALL"
OVERALL_SPARKLES == "sparkles OVERALL"
OVERALL_PARTY == "party OVERALL"

(* priority_order.get(x.split(':')[0], 99), line 461-463 *)
priority_order(prefix) ==
    CASE prefix = CRITICAL         -> 0
      [] prefix = OVERALL_SIREN    -> 1
      [] prefix = HIGH             -> 2
      [] prefix = MEDIUM           -> 3
      [] prefix = LOW              -> 4
      [] prefix = OVERALL_BARS     -> 5
      [] prefix = OVERALL_SPARKLES -> 6
      [] prefix = OVERALL_PARTY    -> 7
      [] OTHER                     -> 99

Take(s, n) ==
    SubSeq(s, 1, IF Len(s) < n THEN Len(s) ELSE n)

(* [k for k in keywords if k.lower() not in resume_text.lower()] *)
MissingKeywords(keywords, text) ==
    LET Missing(k) == ~IsSubstr(Lower(k), Lower(text))
    IN  SelectSeq(keywords, Missing)

When(cond, rec) ==
    IF cond THEN <<rec>> ELSE <<>>

(* lines 441-443: the message about the formatting component *)
FormattingRecommendation(formatting) ==
    When(RLt(formatting, RInt(70)), Rec(LOW, "headers", <<>>))

(* lines 410-446: the per-component recommendations, in generation order *)
ComponentRecommendations(sc, text, jks) ==
    LET critical_missing == MissingKeywords(Take(jks, 8), text)
        high_missing == Take(MissingKeywords(jks, text), 6)
    IN  When(RLt(sc.personal_info, RInt(60)), Rec(CRITICAL, "contact", <<>>))
     \o When(RLt(sc.keyword_match, RInt(40)) /\ critical_missing # <<>>,
             Rec(CRITICAL, "key_skills", Take(critical_missing, 4)))
     \o When(RLt(sc.keyword_match, RInt(60)) /\ high_missing # <<>>,
             Rec(HIGH, "missing_keywords", Take(high_missing, 3)))
     \o When(RLt(sc.keyword_density, RInt(40)), Rec(HIGH, "increase_usage", <<>>))
     \o When(RLt(RInt(95), sc.keyword_density), Rec(HIGH, "reduce_repetition", <<>>))
     \o When(RLt(sc.skills_alignment, RInt(60)), Rec(MEDIUM, "skills_section", <<>>))
     \o When(RLt(sc.experience_match, RInt(60)), Rec(MEDIUM, "quantify", <<>>))
     \o When(RLt(sc.personal_info, RInt(80)) /\ RLe(RInt(60), sc.personal_info),
             Rec(MEDIUM, "location", <<>>))
     \o FormattingRecommendation(sc.formatting)
     \o When(RLt(sc.education_match, RInt(70)), Rec(LOW, "education", <<>>))

(* lines 448-458: the message of the overall-score bracket *)
OverallRecommendation(overall_score) ==
    IF RLt(overall_score, RInt(40)) THEN Rec(OVERALL_SIREN, "major_revision", <<>>)
    ELSE IF RLt(overall_score, RInt(60)) THEN Rec(OVERALL_BARS, "significant", <<>>)
    ELSE IF RLt(overall_score, RInt(75)) THEN Rec(OVERALL_BARS, "good_foundation", <<>>)
    ELSE IF RLt(overall_score, RInt(85)) THEN Rec(OVERALL_SPARKLES, "very_good", <<>>)
    ELSE Rec(OVERALL_PARTY, "excellent", <<>>)

(* recommendations before the sort *)
GeneratedRecommendations(sc, text, jks) ==
    ComponentRecommendations(sc, text, jks) \o <<OverallRecommendation(WeightedSum(sc))>>

(* list.sort(key=priority) is stable: x goes after every entry whose priority *)
(* is at most its own                                                         *)
RECURSIVE InsertByPriority(_, _)
InsertByPriority(sorted, x) ==
    IF sorted = <<>> THEN <<x>>
    ELSE IF priority_order(Head(sorted).prefix) <= priority_order(x.prefix)
         THEN <<Head(sorted)>> \o InsertByPriority(Tail(sorted), x)
    ELSE <<x>> \o sorted

(* the list left in generation order *)
SortByPriority_unsorted(recs) ==
    recs

RECURSIVE SortByPriority(_)
SortByPriority(recs) ==
    IF recs = <<>> THEN <<>>
    ELSE InsertByPriority(SortByPriority(DropLast(recs, 1)), recs[Len(recs)])

MaxRecommendations == 7

(* job_keywords[:8] and the loop over job_keywords raise TypeError on None *)
generate_recommendations_raises(sc, text, jks) ==
    /\ RLt(sc.keyword_match, RInt(60))
    /\ jks = NoneList \/ (jks # <<>> /\ text = NoneText)

generate_recommendations(sc, text, jks) ==
    Take(SortByPriority(GeneratedRecommendations(sc, text, jks)), MaxRecommendations)

get_grade_letter(score) ==
    IF RLe(RInt(90), score) THEN "A"
    ELSE IF RLe(RInt(80), score) THEN "B"
    ELSE IF RLe(RInt(70), score) THEN "C"
    ELSE IF RLe(RInt(60), score) THEN "D"
    ELSE "F"

get_compatibility_level(score) ==
    IF RLe(RInt(90), score) THEN "Exceptional"
    ELSE IF RLe(RInt(85), score) THEN "Excellent"
    ELSE IF RLe(RInt(75), score) THEN "Very Good"
    ELSE IF RLe(RInt(65), score) THEN "Good"
    ELSE IF RLe(RInt(55), score) THEN "Fair"
    ELSE IF RLe(RInt(45), score) THEN "Below Average"
    ELSE IF RLe(RInt(35), score) THEN "Poor"
    ELSE "Critical"

(* the record _get_enhanced_keyword_analysis returns when the analysis raises *)
DefaultKeywordAnalysis ==
    [score               |-> RInt(0),
     exact_matches       |-> {},
     similar_matches     |-> EmptyDict,
     categorized_matches |-> EmptyDict,
     keyword_analysis    |-> EmptyDict]

get_enhanced_keyword_analysis(m, text, jks, nlp_fails) ==
    IF enhanced_keyword_match_score_raises(jks, text, nlp_fails)
    THEN DefaultKeywordAnalysis
    ELSE enhanced_keyword_match_score(m, jks, text, TRUE)

-----------------------------------------------------------------------------
(* calculate_overall_score *)

(* dict.get(field, default) *)
GetOr(d, field, default) ==
    IF field \in DOMAIN d THEN d[field] ELSE default

(* job_info.get(key, []): the caller's list when the key is there, a new   *)
(* empty list otherwise                                                     *)
GetList(d, h, key) ==
    IF key \in DOMAIN d
    THEN [ref |-> d[key], heap |-> h]
    ELSE [ref |-> Len(h) + 1, heap |-> Append(h, <<>>)]

ListKeys ==
    {"education_requirements", "benefits", "key_skills"}

(* _analyze_job_requirements: the analysis dict, its list values as        *)
(* references, and the heap after the call                                 *)
analyze_job_requirements(info, h) ==
    LET e == GetList(info, h, "education_requirements")
        b == GetList(info, e.heap, "benefits")
        k == GetList(info, b.heap, "key_skills")
    IN  [analysis |->
            [has_salary_info        |-> Truthy(Get(info, "salary_info")),
             experience_level       |-> GetOr(info, "experience_level", "Not specified"),
             work_type              |-> GetOr(info, "work_type", "Not specified"),
             employment_type        |-> GetOr(info, "employment_type", "Not specified"),
             education_requirements |-> e.ref,
             benefits_offered       |-> b.ref,
             key_skills_required    |-> k.ref,
             company_info           |-> [name     |-> Get(info, "company_name"),
                                         website  |-> Get(info, "website"),
                                         industry |-> Get(info, "industry")]],
         heap |-> k.heap]

(* lines 78-84: the component scores, unrounded *)
ComponentScores(m, text, jks, info) ==
    [keyword_match    |-> calculate_keyword_match_score(m, text, jks),
     keyword_density  |-> calculate_keyword_density_score(text, jks),
     personal_info    |-> calculate_personal_info_score(info),
     skills_alignment |-> calculate_skills_alignment_score(text, jks),
     experience_match |-> calculate_experience_match_score(text, jks),
     education_match  |-> calculate_education_match_score(text, jks),
     formatting       |-> calculate_formatting_score(text)]

(* an exception leaves calculate_overall_score: no statement of lines 75-97 *)
(* outside the two analysis helpers is inside a try                         *)
component_scores_raise(text, jks, nlp_fails) ==
    \/ calculate_keyword_match_score_raises(text, jks, nlp_fails[1])
    \/ section_score_raises(text, jks, "skills")
    \/ section_score_raises(text, jks, "experience")
    \/ section_score_raises(text, jks, "education")

(* {k: round(v, 1) for k, v in scores.items()}, in tenths *)
RECURSIVE RoundedOver(_, _)
RoundedOver(sc, keys) ==
    IF keys = {} THEN {[k \in {} |-> 0]}
    ELSE LET k == CHOOSE x \in keys : TRUE
         IN  {r @@ (k :> t) : r \in RoundedOver(sc, keys \ {k}), t \in Round1(sc[k])}

RoundedScores(sc) ==
    RoundedOver(sc, DOMAIN sc)

-----------------------------------------------------------------------------
(* Inputs of the model *)

w_python   == <<"p","y","t","h","o","n">>
w_Python   == <<"P","y","t","h","o","n">>
w_java     == <<"j","a","v","a">>
w_sql      == <<"s","q","l">>
w_tested   == <<"t","e","s","t","e","d">>
w_tests    == <<"t","e","s","t","s">>
w_testing  == <<"t","e","s","t","i","n","g">>
w_degree   == <<"d","e","g","r","e","e">>
w_team     == <<"t","e","a","m">>
w_the      == <<"t","h","e">>
w_filler   == <<"x">>

(* the longest job-keyword list the matcher is called with *)
MaxKeywords == 2

(* every list of at most n words of vocab, duplicates allowed *)
RECURSIVE ListsUpTo(_, _)
ListsUpTo(vocab, n) ==
    IF n = 0 THEN {<<>>}
    ELSE LET shorter == ListsUpTo(vocab, n - 1)
         IN  shorter \cup {Append(l, w) : l \in {s \in shorter : Len(s) = n - 1}, w \in vocab}

MatchVocabulary == {w_python, w_Python, w_java, w_tested, w_degree}

MatchTexts ==
    { <<>>,
      <<" ", " ">>,
      Join(<<w_python>>, " "),
      Join(<<w_Python, w_java>>, " "),
      Join(<<w_tests, w_testing>>, " "),
      Join(<<w_the, w_python, w_tests, w_testing>>, " "),
      Join(<<w_python, w_java, w_degree>>, "\n"),
      Join(<<w_java, w_tested, w_filler>>, " ") }

NoResult == [status |-> "none"]

NoScores == [c \in {} |-> RInt(0)]

NoDict == [k \in {} |-> ""]

InitMatch ==
    /\ resume_text \in MatchTexts
    /\ job_keywords \in ListsUpTo(MatchVocabulary, MaxKeywords)
    /\ use_similarity \in BOOLEAN
    /\ nlp_model \in NlpModels
    /\ nlp_raises \in {<<FALSE, FALSE>>, <<TRUE, TRUE>>}
    /\ personal_info = NoDict
    /\ scores = NoScores
    /\ job_info = NoDict
    /\ heap = <<>>
    /\ process = Imported
    /\ args = NoArgs
    /\ pc = "start"
    /\ result = NoResult

(* one call enhanced_keyword_match_score(job_keywords, resume_text, use_similarity) *)
CallEnhancedKeywordMatchScore ==
    /\ pc = "start"
    /\ pc' = "done"
    /\ result' = IF enhanced_keyword_match_score_raises(job_keywords, resume_text, nlp_raises[1])
                 THEN [status |-> "raised"]
                 ELSE [status |-> "returned",
                       value  |-> enhanced_keyword_match_score(nlp_model, job_keywords,
                                                               resume_text, use_similarity)]
    /\ UNCHANGED <<resume_text, job_keywords, use_similarity, personal_info, scores,
                   nlp_model, nlp_raises, job_info, heap, process, args>>

NextMatch ==
    CallEnhancedKeywordMatchScore

SpecMatch ==
    InitMatch /\ [][NextMatch]_vars

-----------------------------------------------------------------------------
(* calculate_overall_score and _generate_recommendations as operations *)

w_Skills     == <<"S","k","i","l","l","s">>
w_Experience == <<"E","x","p","e","r","i","e","n","c","e">>
w_Education  == <<"E","d","u","c","a","t","i","o","n">>
w_Summary    == <<"S","u","m","m","a","r","y">>
w_bullet     == <<"-">>

(* the most filler words a resume text is padded with *)
MaxFiller == 14

RECURSIVE Filler(_)
Filler(n) ==
    IF n = 0 THEN <<>> ELSE <<w_filler>> \o Filler(n - 1)

(* Python source text: lines of words *)
TextOf(lines) ==
    Join([i \in DOMAIN lines |-> Join(lines[i], " ")], "\n")

ScoreBodies ==
    { <<<<w_python>>>>,
      <<<<w_python, w_java>>>>,
      <<<<w_Skills>>, <<w_java>>, <<w_Experience>>, <<w_team, w_java>>>>,
      <<<<w_Skills>>, <<w_python, w_java, w_sql>>, <<w_Education>>, <<w_degree>>,
        <<w_Experience>>, <<w_bullet, w_python, w_team>>>>,
      <<<<w_Summary>>, <<w_bullet, w_tests, w_testing>>>> }

(* filler counts that put one keyword occurrence at densities 8.33, 2.857 *)
(* and 2.78 per 100 words                                                 *)
DensityFiller ==
    {11, 34, 35}

ScoreTexts ==
    {NoneText, <<>>}
        \cup {TextOf(Append(b, Filler(n))) : b \in ScoreBodies, n \in {0, MaxFiller}}
        \cup {TextOf(<<<<w_python>>, Filler(n)>>) : n \in DensityFiller}

ScoreKeywordLists ==
    { NoneList,
      <<>>,
      <<w_python>>,
      <<w_python, w_java>>,
      <<w_python, w_java, w_sql>>,
      <<w_degree, w_Python>>,
      <<w_team, w_tested>>,
      <<w_java, w_java>> }

Flat5 ==
    [name |-> "Jane Doe", email |-> "jane@x.com", phone_number |-> "5551234567",
     province |-> "ON", major_city |-> "Toronto"]

Flat3 ==
    [name |-> "Jane Doe", email |-> "jane@x.com", phone_number |-> "5551234567"]

Flat1 ==
    [name |-> "Jane Doe", email |-> "None", phone_number |-> ""]

(* the comprehensive record of get_comprehensive_resume_info: the contact *)
(* fields are held under its "personal_info" key                          *)
Nested(flat) ==
    [personal_info |-> flat, professional_summary |-> "None"]

ScoreInfos ==
    {Flat5, Flat3, Flat1, NoDict, Nested(Flat5), Nested(Flat3)}

InitScore ==
    /\ resume_text \in ScoreTexts
    /\ job_keywords \in ScoreKeywordLists
    /\ personal_info \in ScoreInfos
    /\ nlp_model \in NlpModels
    /\ nlp_raises \in {<<FALSE, FALSE>>, <<FALSE, TRUE>>, <<TRUE, TRUE>>}
    /\ use_similarity = TRUE
    /\ scores = NoScores
    /\ job_info = [benefits |-> 1]
    /\ heap = <<<<"dental">>>>
    /\ process = Imported
    /\ args = NoArgs
    /\ pc = "start"
    /\ result = NoResult

(* one call calculate_overall_score(resume_text, job_keywords, personal_info, *)
(* job_info).  resume_analysis is left out of the result: it is computed     *)
(* from get_comprehensive_resume_info(resume_text) inside a try and holds     *)
(* numbers and new lists only.  scores is the local dict of line 77, unrounded; *)
(* the result holds overall_score and component_scores in tenths.             *)
CallCalculateOverallScore ==
    /\ pc = "start"
    /\ pc' = "done"
    /\ IF component_scores_raise(resume_text, job_keywords, nlp_raises)
       THEN /\ result' = [status |-> "raised"]
            /\ scores' = scores
            /\ heap' = heap
       ELSE \E sc \in {ComponentScores(nlp_model, resume_text, job_keywords, personal_info)} :
            \E overall_score \in {WeightedSum(sc)} :
              /\ scores' = sc
              /\ IF generate_recommendations_raises(sc, resume_text, job_keywords)
                 THEN result' = [status |-> "raised"] /\ heap' = heap
                 ELSE \E rounded_overall \in Round1(overall_score),
                         rounded \in RoundedScores(sc),
                         job \in {analyze_job_requirements(job_info, heap)} :
                        /\ heap' = job.heap
                        /\ result' =
                           [status            |-> "returned",
                            overall_score     |-> rounded_overall,
                            component_scores  |-> rounded,
                            recommendations   |-> generate_recommendations(sc, resume_text,
                                                                           job_keywords),
                            grade             |-> get_grade_letter(overall_score),
                            ats_compatibility |-> get_compatibility_level(overall_score),
                            keyword_analysis  |-> get_enhanced_keyword_analysis(
                                                      nlp_model, resume_text, job_keywords,
                                                      nlp_raises[2]),
                            job_analysis      |-> job.analysis]
    /\ UNCHANGED <<resume_text, job_keywords, use_similarity, personal_info,
                   nlp_model, nlp_raises, job_info, process, args>>

NextScore ==
    CallCalculateOverallScore

SpecScore ==
    InitScore /\ [][NextScore]_vars

(* component-score maps _generate_recommendations is called with *)
ScoreMaps ==
    { [keyword_match |-> RInt(km), keyword_density |-> RInt(kd), personal_info |-> RInt(pi),
       skills_alignment |-> RInt(sk), experience_match |-> RInt(ex),
       education_match |-> RInt(ed), formatting |-> RInt(fm)] :
          km \in {30, 50, 90}, kd \in {0, 70, 100}, pi \in {40, 60, 100},
          sk \in {30, 95}, ex \in {40, 100}, ed \in {50, 100}, fm \in {60, 100} }

InitRec ==
    /\ scores \in ScoreMaps
    /\ resume_text \in {TextOf(<<<<w_python>>>>), TextOf(<<<<w_python, w_java, w_sql>>>>)}
    /\ job_keywords \in {<<>>, <<w_python, w_java, w_sql>>}
    /\ personal_info = NoDict
    /\ nlp_model = "lemma"
    /\ nlp_raises = <<FALSE, FALSE>>
    /\ use_similarity = TRUE
    /\ job_info = NoDict
    /\ heap = <<>>
    /\ process = Imported
    /\ args = NoArgs
    /\ pc = "start"
    /\ result = NoResult

(* one call _generate_recommendations(scores, resume_text, job_keywords) *)
CallGenerateRecommendations ==
    /\ pc = "start"
    /\ pc' = "done"
    /\ result' = [status |-> "returned",
                  value  |-> generate_recommendations(scores, resume_text, job_keywords)]
    /\ UNCHANGED <<resume_text, job_keywords, use_similarity, personal_info, scores,
                   nlp_model, nlp_raises, job_info, heap, process, args>>

NextRec ==
    CallGenerateRecommendations

SpecRec ==
    InitRec /\ [][NextRec]_vars

-----------------------------------------------------------------------------
(* _calculate_personal_info_score as an operation *)

ContactFields ==
    {"name", "email", "phone_number", "province", "major_city"}

(* a field holds None, the empty string or a value *)
FieldValues ==
    {"None", "", "Jane Doe"}

(* every flat record: any subset of the five keys, any values *)
FlatInfos ==
    UNION {[S -> FieldValues] : S \in SUBSET ContactFields}

InitInfo ==
    /\ personal_info \in FlatInfos
    /\ resume_text = <<>>
    /\ job_keywords = <<>>
    /\ scores = NoScores
    /\ nlp_model = "lemma"
    /\ nlp_raises = <<FALSE, FALSE>>
    /\ use_similarity = TRUE
    /\ job_info = NoDict
    /\ heap = <<>>
    /\ process = Imported
    /\ args = NoArgs
    /\ pc = "start"
    /\ result = NoResult

(* one call _calculate_personal_info_score(personal_info) *)
CallCalculatePersonalInfoScore ==
    /\ pc = "start"
    /\ pc' = "done"
    /\ result' = [status |-> "returned",
                  value  |-> calculate_personal_info_score(personal_info)]
    /\ UNCHANGED <<resume_text, job_keywords, use_similarity, personal_info, scores,
                   nlp_model, nlp_raises, job_info, heap, process, args>>

NextInfo ==
    CallCalculatePersonalInfoScore

SpecInfo ==
    InitInfo /\ [][NextInfo]_vars

-----------------------------------------------------------------------------
(* calculate_overall_score and the caller's later use of the objects *)

(* longest list the caller grows a list object to *)
MaxListLen == 2

(* the caller's three list objects *)
CallerHeap ==
    << <<"BSc">>, <<"dental">>, <<"python">> >>

RefOfKey ==
    [education_requirements |-> 1, benefits |-> 2, key_skills |-> 3]

(* job_info dicts: any of the three list keys, each bound to its own list *)
(* object, with or without an experience_level                            *)
JobInfos ==
    UNION {{[k \in keys |-> RefOfKey[k]],
            [k \in keys |-> RefOfKey[k]] @@ [experience_level |-> "Senior"]} :
               keys \in SUBSET ListKeys}

InitOwn ==
    /\ resume_text = TextOf(<<<<w_python>>>>)
    /\ job_keywords \in {<<w_python>>, <<w_python, w_java>>}
    /\ personal_info \in {Flat3, NoDict}
    /\ nlp_model = "lemma"
    /\ nlp_raises = <<FALSE, FALSE>>
    /\ use_similarity = TRUE
    /\ scores = NoScores
    /\ job_info \in JobInfos
    /\ heap = CallerHeap
    /\ process = Imported
    /\ args = NoArgs
    /\ pc = "start"
    /\ result = NoResult

(* the list objects reachable from the input dict *)
InputRefs(info) ==
    {info[k] : k \in DOMAIN info \cap ListKeys}

(* the list objects reachable from the returned dict *)
ResultRefs(r) ==
    {r.job_analysis.education_requirements,
     r.job_analysis.benefits_offered,
     r.job_analysis.key_skills_required}

(* after the call the caller appends to a list of job_info *)
MutateInput ==
    /\ pc = "done"
    /\ \E ref \in InputRefs(job_info) :
          /\ Len(heap[ref]) < MaxListLen
          /\ heap' = [heap EXCEPT ![ref] = Append(@, "added")]
    /\ UNCHANGED <<resume_text, job_keywords, use_similarity, personal_info, scores,
                   nlp_model, nlp_raises, job_info, process, args, pc, result>>

(* after the call the caller appends to a list of the returned job_analysis *)
MutateResult ==
    /\ pc = "done"
    /\ result.status = "returned"
    /\ \E ref \in ResultRefs(result) :
          /\ Len(heap[ref]) < MaxListLen
          /\ heap' = [heap EXCEPT ![ref] = Append(@, "added")]
    /\ UNCHANGED <<resume_text, job_keywords, use_similarity, personal_info, scores,
                   nlp_model, nlp_raises, job_info, process, args, pc, result>>

NextOwn ==
    \/ CallCalculateOverallScore
    \/ MutateInput
    \/ MutateResult

SpecOwn ==
    InitOwn /\ [][NextOwn]_vars

-----------------------------------------------------------------------------
(* the life of the spaCy model handles in one process *)

(* calls followed in one process *)
MaxCalls == 6

InitLoad ==
    /\ process \in {NewProcess(installed) : installed \in BOOLEAN}
    /\ args = NoArgs
    /\ resume_text = TextOf(<<<<w_python>>>>)
    /\ job_keywords = <<w_python>>
    /\ personal_info = NoDict
    /\ nlp_model = "lemma"
    /\ nlp_raises = <<FALSE, FALSE>>
    /\ use_similarity = TRUE
    /\ scores = NoScores
    /\ job_info = NoDict
    /\ heap = <<>>
    /\ pc = "start"
    /\ result = NoResult

LoadFrame ==
    UNCHANGED <<resume_text, job_keywords, use_similarity, personal_info, scores,
                nlp_model, nlp_raises, job_info, heap, args, pc, result>>

(* the first import of a module; resume_keywords cannot be imported while the *)
(* model is not installed: its spacy.load raises OSError                      *)
Import ==
    /\ \/ /\ process.nlp["keywords_extraction"] = NotImported
          /\ process' = ImportKeywordsExtraction(process)
       \/ /\ process.nlp["ats_scoring"] = NotImported
          /\ process' = ImportAtsScoring(process)
       \/ /\ process.nlp["resume_keywords"] = NotImported
          /\ process.installed
          /\ process' = ImportResumeKeywords(process)
    /\ LoadFrame

(* get_keywords(text) on a text with words: nlp(text) at line 83 *)
ProcessGetKeywords ==
    /\ process.nlp["keywords_extraction"] # NotImported
    /\ process.calls < MaxCalls
    /\ process' = [UseNlp(process, "keywords_extraction") EXCEPT !.calls = @ + 1]
    /\ LoadFrame

(* get_comprehensive_resume_info(text): nlp(text) at line 650 *)
ProcessGetComprehensiveResumeInfo ==
    /\ process.nlp["resume_keywords"] # NotImported
    /\ process.calls < MaxCalls
    /\ process' = [UseNlp(process, "resume_keywords") EXCEPT !.calls = @ + 1]
    /\ LoadFrame

(* calculate_ats_score on a text with words: get_keywords for the keyword     *)
(* score, then _analyze_resume_content imports resume_keywords and calls      *)
(* get_comprehensive_resume_info                                              *)
ProcessCalculateAtsScore ==
    /\ process.nlp["ats_scoring"] # NotImported
    /\ process.calls < MaxCalls
    /\ \E p \in {ImportResumeKeywords(UseNlp(process, "keywords_extraction"))} :
          process' = [UseNlp(p, "resume_keywords") EXCEPT !.calls = @ + 1]
    /\ LoadFrame

NextLoad ==
    \/ Import
    \/ ProcessGetKeywords
    \/ ProcessGetComprehensiveResumeInfo
    \/ ProcessCalculateAtsScore

SpecLoad ==
    InitLoad /\ [][NextLoad]_vars

-----------------------------------------------------------------------------
(* get_keywords on its own *)

(* the most words of a text get_keywords is called with *)
MaxWords == 2

w_cpp == <<"c","+","+">>

w_go == <<"g","o">>

KeywordVocabulary ==
    {w_tests, w_Python, w_java, w_the, w_cpp, w_go}

KeywordTexts ==
    {NoneText, <<" ">>, <<" ", "\n", "\t">>}
        \cup {Join(ws, " ") : ws \in ListsUpTo(KeywordVocabulary, MaxWords)}

MinLens == {1, min_len, 3, 5}

InitKeywords ==
    /\ resume_text \in KeywordTexts
    /\ args \in {[min_len |-> n] : n \in MinLens}
    /\ nlp_model \in NlpModels
    /\ nlp_raises = <<FALSE, FALSE>>
    /\ job_keywords = <<>>
    /\ personal_info = NoDict
    /\ use_similarity = TRUE
    /\ scores = NoScores
    /\ job_info = NoDict
    /\ heap = <<>>
    /\ process = Imported
    /\ pc = "start"
    /\ result = NoResult

(* one call get_keywords(resume_text, min_len) *)
CallGetKeywords ==
    /\ pc = "start"
    /\ pc' = "done"
    /\ result' = [status |-> "returned",
                  value  |-> get_keywords(nlp_model, resume_text, args.min_len, TRUE, FALSE)]
    /\ UNCHANGED <<resume_text, job_keywords, use_similarity, personal_info, scores,
                   nlp_model, nlp_raises, job_info, heap, process, args>>

NextKeywords ==
    CallGetKeywords

SpecKeywords ==
    InitKeywords /\ [][NextKeywords]_vars

-----------------------------------------------------------------------------
(* find_similar_keywords on its own *)

(* the longest resume-keyword list find_similar_keywords is called with *)
MaxResumeKeywords == 4

w_test == <<"t","e","s","t">>

SimilarJobKeywordLists ==
    {<<>>, <<w_test>>, <<w_java>>, <<w_java, w_test>>, <<w_test, w_test>>}

SimilarResumeVocabulary ==
    {w_test, w_tests, w_tested, w_java}

Thresholds ==
    {similarity_threshold, Rat(95, 100)}

InitSimilar ==
    /\ job_keywords \in SimilarJobKeywordLists
    /\ args \in {[resume_keywords |-> rks, similarity_threshold |-> t] :
                    rks \in ListsUpTo(SimilarResumeVocabulary, MaxResumeKeywords),
                    t \in Thresholds}
    /\ resume_text = <<>>
    /\ nlp_model = "lemma"
    /\ nlp_raises = <<FALSE, FALSE>>
    /\ personal_info = NoDict
    /\ use_similarity = TRUE
    /\ scores = NoScores
    /\ job_info = NoDict
    /\ heap = <<>>
    /\ process = Imported
    /\ pc = "start"
    /\ result = NoResult

(* one call find_similar_keywords(job_keywords, resume_keywords, similarity_threshold) *)
CallFindSimilarKeywords ==
    /\ pc = "start"
    /\ pc' = "done"
    /\ result' = [status |-> "returned",
                  value  |-> find_similar_keywords(job_keywords, args.resume_keywords,
                                                   args.similarity_threshold)]
    /\ UNCHANGED <<resume_text, job_keywords, use_similarity, personal_info, scores,
                   nlp_model, nlp_raises, job_info, heap, process, args>>

NextSimilar ==
    CallFindSimilarKeywords

SpecSimilar ==
    InitSimilar /\ [][NextSimilar]_vars

-----------------------------------------------------------------------------
(* categorize_keywords on its own *)

(* the longest keyword list categorize_keywords is called with *)
MaxCategorized == 3

w_Azure == <<"A","z","u","r","e">>

w_django == <<"d","j","a","n","g","o">>

w_leadership == <<"l","e","a","d","e","r","s","h","i","p">>

w_pmp == <<"p","m","p">>

w_english == <<"e","n","g","l","i","s","h">>

CategorizeVocabulary ==
    {w_python, w_Azure, w_django, w_leadership, w_degree, w_pmp, w_english, w_team}

InitCategorize ==
    /\ job_keywords \in ListsUpTo(CategorizeVocabulary, MaxCategorized)
    /\ args = NoArgs
    /\ resume_text = <<>>
    /\ nlp_model = "lemma"
    /\ nlp_raises = <<FALSE, FALSE>>
    /\ personal_info = NoDict
    /\ use_similarity = TRUE
    /\ scores = NoScores
    /\ job_info = NoDict
    /\ heap = <<>>
    /\ process = Imported
    /\ pc = "start"
    /\ result = NoResult

(* one call categorize_keywords(job_keywords) *)
CallCategorizeKeywords ==
    /\ pc = "start"
    /\ pc' = "done"
    /\ result' = [status |-> "returned", value |-> categorize_keywords(job_keywords)]
    /\ UNCHANGED <<resume_text, job_keywords, use_similarity, personal_info, scores,
                   nlp_model, nlp_raises, job_info, heap, process, args>>

NextCategorize ==
    CallCategorizeKeywords

SpecCategorize ==
    InitCategorize /\ [][NextCategorize]_vars

-----------------------------------------------------------------------------
(* calculate_keyword_similarity on its own *)

w_python_padded ==
    <<" ","p","y","t","h","o","n">>

w_color ==
    <<"c","o","l","o","r">>

w_colour ==
    <<"c","o","l","o","u","r">>

w_data_science ==
    <<"d","a","t","a"," ","s","c","i","e","n","c","e">>

w_data_analysis ==
    <<"d","a","t","a"," ","a","n","a","l","y","s","i","s">>

w_javascript ==
    <<"j","a","v","a","s","c","r","i","p","t">>

w_script ==
    <<"s","c","r","i","p","t">>

w_postgresql ==
    <<"p","o","s","t","g","r","e","s","q","l">>

SimilarityVocabulary ==
    {<<>>, <<" ">>, w_Python, w_python_padded, w_tests, w_test, w_color, w_colour,
     w_data_science, w_data_analysis, w_java, w_javascript, w_script, w_postgresql,
     w_sql, w_team}

InitSimilarity ==
    /\ args \in {[keyword1 |-> a, keyword2 |-> b] :
                    a \in SimilarityVocabulary, b \in SimilarityVocabulary}
    /\ job_keywords = <<>>
    /\ resume_text = <<>>
    /\ nlp_model = "lemma"
    /\ nlp_raises = <<FALSE, FALSE>>
    /\ personal_info = NoDict
    /\ use_similarity = TRUE
    /\ scores = NoScores
    /\ job_info = NoDict
    /\ heap = <<>>
    /\ process = Imported
    /\ pc = "start"
    /\ result = NoResult

(* one call calculate_keyword_similarity(keyword1, keyword2) *)
CallCalculateKeywordSimilarity ==
    /\ pc = "start"
    /\ pc' = "done"
    /\ result' = [status |-> "returned",
                  value  |-> calculate_keyword_similarity(args.keyword1, args.keyword2)]
    /\ UNCHANGED <<resume_text, job_keywords, use_similarity, personal_info, scores,
                   nlp_model, nlp_raises, job_info, heap, process, args>>

NextSimilarity ==
    CallCalculateKeywordSimilarity

SpecSimilarity ==
    InitSimilarity /\ [][NextSimilarity]_vars

-----------------------------------------------------------------------------
(* _extract_section_text on its own *)

(* the most lines of a text _extract_section_text is called with *)
MaxLines == 4

SectionLines ==
    {<<>>, w_Skills, w_Education, w_python, w_java}

SectionTexts ==
    {Join(ls, "\n") : ls \in ListsUpTo(SectionLines, MaxLines)}

RequestedTypes ==
    {"skills", "education", "projects"}

InitSection ==
    /\ resume_text \in SectionTexts
    /\ args \in {[section_type |-> t] : t \in RequestedTypes}
    /\ job_keywords = <<>>
    /\ nlp_model = "lemma"
    /\ nlp_raises = <<FALSE, FALSE>>
    /\ personal_info = NoDict
    /\ use_similarity = TRUE
    /\ scores = NoScores
    /\ job_info = NoDict
    /\ heap = <<>>
    /\ process = Imported
    /\ pc = "start"
    /\ result = NoResult

(* one call _extract_section_text(resume_text, section_type) *)
CallExtractSectionText ==
    /\ pc = "start"
    /\ pc' = "done"
    /\ result' = [status |-> "returned",
                  value  |-> extract_section_text(resume_text, args.section_type)]
    /\ UNCHANGED <<resume_text, job_keywords, use_similarity, personal_info, scores,
                   nlp_model, nlp_raises, job_info, heap, process, args>>

NextSection ==
    CallExtractSectionText

SpecSection ==
    InitSection /\ [][NextSection]_vars

-----------------------------------------------------------------------------
(* the three section scores on their own *)

(* the most lines of a text the section scores are called with *)
MaxSectionLines == 3

w_team_experience ==
    <<"t","e","a","m"," ","e","x","p","e","r","i","e","n","c","e">>

w_work ==
    <<"w","o","r","k">>

w_history ==
    <<"h","i","s","t","o","r","y">>

w_work_history ==
    <<"w","o","r","k"," ","h","i","s","t","o","r","y">>

SectionScoreLines ==
    {w_Experience, w_Education, w_Skills, w_team_experience, w_degree, w_team,
     w_work, w_history}

SectionScoreTexts ==
    {Join(ls, "\n") : ls \in ListsUpTo(SectionScoreLines, MaxSectionLines)}

SectionScoreKeywordLists ==
    { <<>>, <<w_python>>, <<w_team_experience>>,
      <<w_team, w_team_experience>>, <<w_degree, w_python>>, <<w_Skills, w_team>>,
      <<w_work_history>> }

InitSectionScore ==
    /\ resume_text \in SectionScoreTexts
    /\ job_keywords \in SectionScoreKeywordLists
    /\ args = NoArgs
    /\ nlp_model = "lemma"
    /\ nlp_raises = <<FALSE, FALSE>>
    /\ personal_info = NoDict
    /\ use_similarity = TRUE
    /\ scores = NoScores
    /\ job_info = NoDict
    /\ heap = <<>>
    /\ process = Imported
    /\ pc = "start"
    /\ result = NoResult

SectionScoreFrame ==
    UNCHANGED <<resume_text, job_keywords, use_similarity, personal_info, scores,
                nlp_model, nlp_raises, job_info, heap, process, args>>

(* one call _calculate_skills_alignment_score(resume_text, job_keywords) *)
CallSkillsAlignmentScore ==
    /\ pc = "start"
    /\ pc' = "done"
    /\ result' = [status |-> "returned", component |-> "skills_alignment",
                  value  |-> calculate_skills_alignment_score(resume_text, job_keywords)]
    /\ SectionScoreFrame

(* one call _calculate_experience_match_score(resume_text, job_keywords) *)
CallExperienceMatchScore ==
    /\ pc = "start"
    /\ pc' = "done"
    /\ result' = [status |-> "returned", component |-> "experience_match",
                  value  |-> calculate_experience_match_score(resume_text, job_keywords)]
    /\ SectionScoreFrame

(* one call _calculate_education_match_score(resume_text, job_keywords) *)
CallEducationMatchScore ==
    /\ pc = "start"
    /\ pc' = "done"
    /\ result' = [status |-> "returned", component |-> "education_match",
                  value  |-> calculate_education_match_score(resume_text, job_keywords)]
    /\ SectionScoreFrame

NextSectionScore ==
    \/ CallSkillsAlignmentScore
    \/ CallExperienceMatchScore
    \/ CallEducationMatchScore

SpecSectionScore ==
    InitSectionScore /\ [][NextSectionScore]_vars

(* The formatting component on its own: resume texts of 0 to 801 words, with *)
(* zero to four section headers and with or without a bullet character.     *)

(* text followed by n filler words *)
Pad(text, n) ==
    text \o [i \in 1..(2 * n) |-> IF i % 2 = 1 THEN " " ELSE "x"]

FormattingBodies ==
    { <<>>,
      <<<<w_python>>>>,
      <<<<w_bullet, w_python>>>>,
      <<<<w_Skills>>, <<w_python>>>>,
      <<<<w_Skills>>, <<w_bullet, w_python>>>>,
      <<<<w_Skills>>, <<w_python>>, <<w_Education>>>>,
      <<<<w_Skills>>, <<w_bullet, w_python>>, <<w_Education>>>>,
      <<<<w_Skills>>, <<w_python>>, <<w_Education>>, <<w_Experience>>>>,
      <<<<w_Skills>>, <<w_python>>, <<w_Education>>, <<w_Experience>>, <<w_Summary>>>>,
      <<<<w_Skills>>, <<w_bullet, w_python>>, <<w_Education>>, <<w_Experience>>,
        <<w_Summary>>>> }

(* the word counts on both sides of every threshold of lines 264-270 *)
FormattingWordCounts ==
    {6, 99, 100, 299, 300, 600, 601, 800, 801}

FormattingTexts ==
    {TextOf(b) : b \in FormattingBodies}
        \cup {Pad(t, n - WordCount(t)) :
                 t \in {TextOf(b) : b \in FormattingBodies}, n \in FormattingWordCounts}

InitFormatting ==
    /\ resume_text \in FormattingTexts
    /\ job_keywords = <<>>
    /\ personal_info = NoDict
    /\ nlp_model = "lemma"
    /\ nlp_raises = <<FALSE, FALSE>>
    /\ use_similarity = TRUE
    /\ scores = NoScores
    /\ job_info = NoDict
    /\ heap = <<>>
    /\ process = Imported
    /\ args = NoArgs
    /\ pc = "start"
    /\ result = NoResult

(* scores['formatting'] = self._calculate_formatting_score(resume_text), and *)
(* what lines 441-443 of _generate_recommendations make of it               *)
CallCalculateFormattingScore ==
    /\ pc = "start"
    /\ pc' = "done"
    /\ \E formatting \in {calculate_formatting_score(resume_text)} :
          result' = [status |-> "returned", component |-> "formatting",
                     value |-> formatting,
                     recommendations |-> FormattingRecommendation(formatting)]
    /\ UNCHANGED <<resume_text, job_keywords, use_similarity, personal_info, scores,
                   nlp_model, nlp_raises, job_info, heap, process, args>>

NextFormatting ==
    CallCalculateFormattingScore

SpecFormatting ==
    InitFormatting /\ [][NextFormatting]_vars

(* find_similar_keywords called with its default threshold: one job keyword *)
(* against resume keywords that meet it under each rule of                  *)
(* calculate_keyword_similarity.                                            *)

w_kotlin ==
    <<"k","o","t","l","i","n">>

w_kotlinjs ==
    <<"k","o","t","l","i","n","j","s">>

w_science_data ==
    <<"s","c","i","e","n","c","e"," ","d","a","t","a">>

DefaultVocabulary ==
    {<<>>, <<" ">>, w_Python, w_python_padded, w_kotlin, w_kotlinjs, w_tests, w_test,
     w_color, w_colour, w_data_science, w_data_analysis, w_science_data,
     w_java, w_javascript, w_script}

DefaultResumeKeywordLists ==
    {<<a>> : a \in DefaultVocabulary}
        \cup {<<a, b>> : a \in {w_javascript, w_data_analysis, w_kotlinjs},
                         b \in DefaultVocabulary}

InitDefaultSimilar ==
    /\ job_keywords \in {<<a>> : a \in DefaultVocabulary}
    /\ args \in {[resume_keywords |-> rks] : rks \in DefaultResumeKeywordLists}
    /\ resume_text = <<>>
    /\ nlp_model = "lemma"
    /\ nlp_raises = <<FALSE, FALSE>>
    /\ personal_info = NoDict
    /\ use_similarity = TRUE
    /\ scores = NoScores
    /\ job_info = NoDict
    /\ heap = <<>>
    /\ process = Imported
    /\ pc = "start"
    /\ result = NoResult

(* one call find_similar_keywords(job_keywords, resume_keywords) *)
CallFindSimilarKeywordsDefault ==
    /\ pc = "start"
    /\ pc' = "done"
    /\ result' = [status |-> "returned",
                  value  |-> find_similar_keywords(job_keywords, args.resume_keywords,
                                                   similarity_threshold)]
    /\ UNCHANGED <<resume_text, job_keywords, use_similarity, personal_info, scores,
                   nlp_model, nlp_raises, job_info, heap, process, args>>

NextDefaultSimilar ==
    CallFindSimilarKeywordsDefault

SpecDefaultSimilar ==
    InitDefaultSimilar /\ [][NextDefaultSimilar]_vars

(* enhanced_keyword_match_score on keywords and texts that differ by the    *)
(* suffixes of the variant list.                                            *)

w_code ==
    <<"c","o","d","e">>

w_Code ==
    <<"C","o","d","e">>

w_see ==
    <<"s","e","e">>

w_coding ==
    <<"c","o","d","i","n","g">>

w_codes ==
    <<"c","o","d","e","s">>

w_processing ==
    <<"p","r","o","c","e","s","s","i","n","g">>

VariantVocabulary ==
    {w_code, w_Code, w_see, w_test, w_tested, w_python}

VariantKeywordLists ==
    {<<a>> : a \in VariantVocabulary}
        \cup {<<a, b>> : a \in VariantVocabulary, b \in VariantVocabulary}

VariantTexts ==
    { Join(<<w_coding>>, " "),
      Join(<<w_codes, w_tests>>, " "),
      Join(<<w_processing, w_python>>, " "),
      Join(<<w_Code, w_tested>>, " "),
      Join(<<w_testing, w_the>>, " "),
      Join(<<w_filler>>, " ") }

InitVariants ==
    /\ resume_text \in VariantTexts
    /\ job_keywords \in VariantKeywordLists
    /\ use_similarity \in BOOLEAN
    /\ nlp_model = "lemma"
    /\ nlp_raises = <<FALSE, FALSE>>
    /\ personal_info = NoDict
    /\ scores = NoScores
    /\ job_info = NoDict
    /\ heap = <<>>
    /\ process = Imported
    /\ args = NoArgs
    /\ pc = "start"
    /\ result = NoResult

NextVariants ==
    CallEnhancedKeywordMatchScore

SpecVariants ==
    InitVariants /\ [][NextVariants]_vars

(* get_job_importance_keywords on its own, over the texts of get_keywords *)

InitImportance ==
    /\ resume_text \in KeywordTexts
    /\ args = NoArgs
    /\ nlp_model \in NlpModels
    /\ nlp_raises = <<FALSE, FALSE>>
    /\ job_keywords = <<>>
    /\ personal_info = NoDict
    /\ use_similarity = TRUE
    /\ scores = NoScores
    /\ job_info = NoDict
    /\ heap = <<>>
    /\ process = Imported
    /\ pc = "start"
    /\ result = NoResult

(* one call get_job_importance_keywords(resume_text) *)
CallGetJobImportanceKeywords ==
    /\ pc = "start"
    /\ pc' = "done"
    /\ result' = IF get_job_importance_keywords_raises(nlp_model, resume_text)
                 THEN [status |-> "raised"]
                 ELSE [status |-> "returned",
                       value  |-> get_job_importance_keywords(nlp_model, resume_text)]
    /\ UNCHANGED <<resume_text, job_keywords, use_similarity, personal_info, scores,
                   nlp_model, nlp_raises, job_info, heap, process, args>>

NextImportance ==
    CallGetJobImportanceKeywords

SpecImportance ==
    InitImportance /\ [][NextImportance]_vars

-----------------------------------------------------------------------------
(* Claims about enhanced_keyword_match_score *)

MatchReturned ==
    pc = "done" /\ result.status = "returned" /\ job_keywords # <<>>

AllExact ==
    \A i \in DOMAIN job_keywords : job_keywords[i] \in result.value.exact_matches

(* C1: for a non-empty job_keywords list, duplicates allowed, if every job  *)
(* keyword is an exact match then the returned score is 100.                *)
C1_AllExactGives100 ==
    (MatchReturned /\ AllExact) => REq(result.value.score, RInt(100))

(* C2: for a non-empty job_keywords list the returned score is 100 only if  *)
(* every job keyword is an exact match; similar matches alone never lift    *)
(* the score to 100.                                                        *)
C2_Only100IfAllExact ==
    (MatchReturned /\ REq(result.value.score, RInt(100))) => AllExact

InPercentRange(x) ==
    RLe(RInt(0), x) /\ RLe(x, RInt(100))

(* C3: for a non-empty job_keywords list and both values of use_similarity, *)
(* the returned score lies in [0, 100] and so does every per-category score *)
(* of categorized_matches.                                                  *)
C3_ScoresInRange ==
    MatchReturned =>
        /\ InPercentRange(result.value.score)
        /\ \A c \in DOMAIN result.value.categorized_matches :
               InPercentRange(result.value.categorized_matches[c].score)

(* C3 witness: a call where the cap decides the score: a keyword that is not *)
(* exact-matched has two similar resume keywords (1.6 > 1) and the score is  *)
(* 100, as is the score of its category.                                     *)
C3_Witness ==
    /\ MatchReturned
    /\ use_similarity
    /\ \E k \in DOMAIN result.value.similar_matches :
           /\ k \notin result.value.exact_matches
           /\ Len(result.value.similar_matches[k]) >= 2
    /\ REq(result.value.score, RInt(100))
    /\ \E c \in DOMAIN result.value.categorized_matches :
           REq(result.value.categorized_matches[c].score, RInt(100))


(* C17: with use_similarity enabled, no key of the returned similar_matches *)
(* is a job keyword of exact_matches.                                       *)
C17_SimilarExcludesExact ==
    (MatchReturned /\ use_similarity) =>
        DOMAIN result.value.similar_matches \cap result.value.exact_matches = {}

(* the score the statement gives a bucket: 100 x min(1, (exact matches in   *)
(* the bucket + 0.8 x similar resume matches of its job keywords that are   *)
(* not exact-matched) / job keywords in the bucket)                         *)
StatedCategoryScore(bucket, exact_matches, similar_matches) ==
    LET exact == Cardinality({i \in DOMAIN bucket : bucket[i] \in exact_matches})
        similar == SumLen(similar_matches,
                          {k \in DOMAIN similar_matches :
                              k \in Range(bucket) /\ k \notin exact_matches})
    IN  RMul(RInt(100),
             RMin(RInt(1), RDiv(RAdd(RInt(exact), Rat(8 * similar, 10)), Len(bucket))))

(* C18: categorized_matches has an entry for every bucket with at least one *)
(* job keyword, and the entry's score is the overall formula restricted to  *)
(* the bucket.                                                              *)
C18_CategoryScoreIsRestrictedFormula ==
    MatchReturned =>
        \A c \in DOMAIN result.value.keyword_analysis.job_categories :
            result.value.keyword_analysis.job_categories[c] # <<>> =>
                /\ c \in DOMAIN result.value.categorized_matches
                /\ REq(result.value.categorized_matches[c].score,
                       StatedCategoryScore(result.value.keyword_analysis.job_categories[c],
                                           result.value.exact_matches,
                                           result.value.similar_matches))

-----------------------------------------------------------------------------
(* Claims about calculate_overall_score *)

ScoreCalled ==
    pc = "done" /\ result.status \in {"returned", "raised"}

ScoreReturned ==
    pc = "done" /\ result.status = "returned"

(* a score of n points, in the tenths the result holds *)
Points(n) ==
    10 * n

(* C4: when resume_text or job_keywords is None or empty, the call raises   *)
(* no exception, keyword_match and keyword_density are 0, and with no text  *)
(* the section scores are their floors: skills_alignment 30,                *)
(* experience_match 40, education_match 50.                                 *)
C4_MissingInputsGiveFloors ==
    (ScoreCalled /\ (FalsyText(resume_text) \/ FalsyList(job_keywords))) =>
        /\ result.status = "returned"
        /\ result.component_scores.keyword_match = Points(0)
        /\ result.component_scores.keyword_density = Points(0)
        /\ FalsyText(resume_text) =>
               /\ result.component_scores.skills_alignment = Points(30)
               /\ result.component_scores.experience_match = Points(40)
               /\ result.component_scores.education_match = Points(50)

(* C5: when keyword extraction raises during the call (the inputs are not   *)
(* None), no exception reaches the caller: the call returns, and the failed *)
(* keyword analysis is the default record.                                  *)
C5_ExtractionFailureIsCaught ==
    (/\ ScoreCalled
     /\ resume_text # NoneText
     /\ job_keywords # NoneList
     /\ get_keywords_calls_nlp(resume_text)
     /\ ~FalsyList(job_keywords)
     /\ nlp_raises[1] /\ nlp_raises[2]) =>
        /\ result.status = "returned"
        /\ result.keyword_analysis = DefaultKeywordAnalysis

(* the weighted sum of a component map with the weights written out:        *)
(* 0.40, 0.15, 0.15, 0.10, 0.10, 0.05, 0.05                                   *)
StatedWeightedSum(sc) ==
    RDiv(RAdd(RMul(RInt(40), sc.keyword_match),
         RAdd(RMul(RInt(15), sc.keyword_density),
         RAdd(RMul(RInt(15), sc.personal_info),
         RAdd(RMul(RInt(10), sc.skills_alignment),
         RAdd(RMul(RInt(10), sc.experience_match),
         RAdd(RMul(RInt(5), sc.education_match),
              RMul(RInt(5), sc.formatting))))))),
         100)

(* the returned one-decimal component scores as numbers of tenths *)
ReturnedComponents ==
    [c \in DOMAIN result.component_scores |-> RInt(result.component_scores[c])]

(* C6: the returned overall_score is the weighted sum of the seven component *)
(* scores (weights 0.40, 0.15, 0.15, 0.10, 0.10, 0.05, 0.05, summing to 1)   *)
(* rounded to one decimal, and differs by at most 0.1 from the weighted sum  *)
(* of the returned one-decimal component scores.                             *)
C6_OverallIsWeightedSum ==
    ScoreReturned =>
        /\ DOMAIN scores = Range(Components)
        /\ REq(WeightedSum([c \in Range(Components) |-> RInt(1)]), RInt(1))
        /\ result.overall_score \in Round1(StatedWeightedSum(scores))
        /\ RLe(RAbs(RSub(RInt(result.overall_score), StatedWeightedSum(ReturnedComponents))),
               RInt(1))

(* C6 witness: a returned result in which rounding acted on a component and  *)
(* on the overall score: neither is the exact value.                         *)
C6_Witness ==
    /\ ScoreReturned
    /\ \E c \in DOMAIN scores :
           ~REq(RInt(result.component_scores[c]), RMul(RInt(10), scores[c]))
    /\ ~REq(RInt(result.overall_score), RMul(RInt(10), StatedWeightedSum(scores)))
    /\ ~REq(RInt(result.overall_score), StatedWeightedSum(ReturnedComponents))

(* the grade the thresholds assign to a score given in tenths *)
GradeOfReturned(tenths) ==
    IF tenths >= Points(90) THEN "A"
    ELSE IF tenths >= Points(80) THEN "B"
    ELSE IF tenths >= Points(70) THEN "C"
    ELSE IF tenths >= Points(60) THEN "D"
    ELSE "F"

(* C7: in every returned result the grade is the one the thresholds assign   *)
(* to the returned overall_score: >= 90 A, >= 80 B, >= 70 C, >= 60 D, else F. *)
C7_GradeOfReturnedScore ==
    ScoreReturned => result.grade = GradeOfReturned(result.overall_score)

OverallPrefixes ==
    {OVERALL_SIREN, OVERALL_BARS, OVERALL_SPARKLES, OVERALL_PARTY}

(* the Overall message of the bracket a score given in tenths lies in *)
OverallOfBracket(tenths) ==
    IF tenths < Points(40) THEN "major_revision"
    ELSE IF tenths < Points(60) THEN "significant"
    ELSE IF tenths < Points(75) THEN "good_foundation"
    ELSE IF tenths < Points(85) THEN "very_good"
    ELSE "excellent"

(* C9: the recommendation list of every returned result contains exactly    *)
(* one Overall message, the one of the bracket (< 40, < 60, < 75, < 85,     *)
(* >= 85) the overall score lies in.                                        *)
C9_ExactlyOneOverall ==
    ScoreReturned =>
        LET overall == {i \in DOMAIN result.recommendations :
                           result.recommendations[i].prefix \in OverallPrefixes}
        IN  /\ Cardinality(overall) = 1
            /\ \A i \in overall :
                   result.recommendations[i].id = OverallOfBracket(result.overall_score)

IsNested(info) ==
    "personal_info" \in DOMAIN info

(* C10: for a nested comprehensive record, the contact fields held under    *)
(* its personal_info key, the personal_info component score equals the      *)
(* score of the flat record holding the same field values.                  *)
C10_NestedScoresAsFlat ==
    (ScoreReturned /\ IsNested(personal_info)) =>
        \E flat \in {personal_info.personal_info} :
            REq(RInt(result.component_scores.personal_info),
                RMul(RInt(10), calculate_personal_info_score(flat)))

-----------------------------------------------------------------------------
(* Claims about _generate_recommendations *)

RecommendationsReturned ==
    pc = "done" /\ result.status = "returned"

(* the priority ranks: Critical 0, Overall-critical 1, High 2, Medium 3,    *)
(* Low 4, Overall-fair 5, Overall-good 6, Overall-excellent 7               *)
StatedRank(rec) ==
    CASE rec.prefix = CRITICAL         -> 0
      [] rec.prefix = OVERALL_SIREN    -> 1
      [] rec.prefix = HIGH             -> 2
      [] rec.prefix = MEDIUM           -> 3
      [] rec.prefix = LOW              -> 4
      [] rec.prefix = OVERALL_BARS     -> 5
      [] rec.prefix = OVERALL_SPARKLES -> 6
      [] rec.prefix = OVERALL_PARTY    -> 7

(* where the stable sort by rank puts entry i of a list *)
SortedPosition(recs, i) ==
    1 + Cardinality({j \in DOMAIN recs :
                        \/ StatedRank(recs[j]) < StatedRank(recs[i])
                        \/ StatedRank(recs[j]) = StatedRank(recs[i]) /\ j < i})

(* C8: the returned list is the first 7 entries of the generated            *)
(* recommendations stable-sorted by priority rank: its length is at most 7, *)
(* ranks are non-decreasing along it, and entries of equal rank keep their  *)
(* generation order.                                                        *)
C8_First7OfStableSort ==
    RecommendationsReturned =>
        \E generated \in {GeneratedRecommendations(scores, resume_text, job_keywords)} :
            /\ Len(result.value) <= 7
            /\ Len(result.value) = Min({7, Len(generated)})
            /\ \A i \in DOMAIN generated :
                   SortedPosition(generated, i) <= 7 =>
                       result.value[SortedPosition(generated, i)] = generated[i]
            /\ \A i, j \in DOMAIN result.value :
                   i < j => StatedRank(result.value[i]) <= StatedRank(result.value[j])

(* C8 witness: more than 7 recommendations are generated and the sort moves *)
(* the Overall-critical message, generated last, ahead of the High ones.    *)
C8_Witness ==
    /\ RecommendationsReturned
    /\ Len(GeneratedRecommendations(scores, resume_text, job_keywords)) > 7
    /\ Len(result.value) = 7
    /\ \E i \in 1..6 : /\ result.value[i].prefix = OVERALL_SIREN
                       /\ result.value[i + 1].prefix = HIGH

-----------------------------------------------------------------------------
(* Claims about _calculate_personal_info_score *)

InfoReturned ==
    pc = "done" /\ result.status = "returned"

(* a field is present when its key is there with a value other than None or "" *)
Present(info, field) ==
    field \in DOMAIN info /\ info[field] # "None" /\ info[field] # ""

PresentAmong(info, fields) ==
    Cardinality({f \in fields : Present(info, f)})

(* C11: for a flat record the score is 20 for each of name, email,          *)
(* phone_number present plus 20 for each of province, major_city present,   *)
(* plus 10 when all five are present, capped at 100; a missing key is an    *)
(* absent field, so the three required fields alone score 60, and the score *)
(* is always one of 0, 20, 40, 60, 80, 100.                                 *)
C11_PersonalInfoPoints ==
    InfoReturned =>
        LET required == PresentAmong(personal_info, {"name", "email", "phone_number"})
            optional == PresentAmong(personal_info, {"province", "major_city"})
            bonus == IF required + optional = 5 THEN 10 ELSE 0
            points == 20 * required + 20 * optional + bonus
        IN  /\ REq(result.value, RInt(IF points > 100 THEN 100 ELSE points))
            /\ \E n \in {0, 20, 40, 60, 80, 100} : REq(result.value, RInt(n))
            /\ (required = 3 /\ optional = 0) => REq(result.value, RInt(60))

(* C11 witness: the three required fields with values and no location key   *)
(* score 60.                                                                *)
C11_Witness ==
    /\ InfoReturned
    /\ DOMAIN personal_info = {"name", "email", "phone_number"}
    /\ \A f \in DOMAIN personal_info : Present(personal_info, f)
    /\ REq(result.value, RInt(60))

-----------------------------------------------------------------------------
(* Claims about the ownership of the returned structure *)

(* C12: the dict returned by calculate_overall_score shares no list with    *)
(* job_info: no list object reachable from the result is one reachable from *)
(* the input.                                                               *)
C12_NoSharedStructure ==
    (pc = "done" /\ result.status = "returned") =>
        ResultRefs(result) \cap InputRefs(job_info) = {}

-----------------------------------------------------------------------------
(* Claims about the model handle *)

(* C13: the model is constructed lazily and at most once: spacy.load has    *)
(* not run before the first call that needs the model, it runs at most      *)
(* once in the process, and all calls use the same handle.                  *)
C13_LazySingleHandle ==
    /\ process.calls = 0 => process.loads = 0
    /\ process.loads <= 1
    /\ Cardinality(process.used) <= 1

-----------------------------------------------------------------------------
(* Claims about get_keywords *)

KeywordsReturned ==
    pc = "done" /\ result.status = "returned"

(* C14: get_keywords returns a lexicographically sorted list without        *)
(* duplicates whose members are lowercase, alphabetic and at least min_len  *)
(* characters long, and the empty list for an empty, whitespace-only or     *)
(* None text.                                                               *)
C14_KeywordsWellFormed ==
    KeywordsReturned =>
        /\ \A i, j \in DOMAIN result.value :
               i < j => StrLess(result.value[i], result.value[j])
        /\ \A i \in DOMAIN result.value :
               /\ IsAlpha(result.value[i])
               /\ Lower(result.value[i]) = result.value[i]
               /\ Len(result.value[i]) >= args.min_len
        /\ (resume_text = NoneText \/ \A i \in DOMAIN resume_text : IsSpace(resume_text[i]))
               => result.value = <<>>

-----------------------------------------------------------------------------
(* Claims about find_similar_keywords *)

SimilarReturned ==
    pc = "done" /\ result.status = "returned"

(* the similarity of job keyword kw to each resume keyword, by position *)
Similarities(kw) ==
    [i \in DOMAIN args.resume_keywords |->
        calculate_keyword_similarity(kw, args.resume_keywords[i])]

(* the positions of the resume keywords that qualify *)
Qualifying(sim) ==
    {i \in DOMAIN sim : RLe(args.similarity_threshold, sim[i])}

(* the place of position i among the qualifying ones: after every one that *)
(* is more similar, and after the equally similar ones that come earlier   *)
PlaceOf(sim, i) ==
    1 + Cardinality({n \in Qualifying(sim) :
                        \/ RLt(sim[i], sim[n])
                        \/ REq(sim[i], sim[n]) /\ n < i})

(* C15: for each job keyword the result lists the qualifying resume         *)
(* keywords by descending similarity, ties in input order, cut to the best  *)
(* 3; a job keyword without a qualifying resume keyword has no entry, and   *)
(* only job keywords have entries.                                          *)
C15_Top3BySimilarity ==
    SimilarReturned =>
        /\ DOMAIN result.value \subseteq Range(job_keywords)
        /\ \A kw \in Range(job_keywords) :
               \E sim \in {Similarities(kw)} :
                  IF Qualifying(sim) = {}
                  THEN kw \notin DOMAIN result.value
                  ELSE /\ kw \in DOMAIN result.value
                       /\ Len(result.value[kw]) = Min({3, Cardinality(Qualifying(sim))})
                       /\ \A i \in Qualifying(sim) :
                              PlaceOf(sim, i) <= 3 =>
                                  result.value[kw][PlaceOf(sim, i)] = args.resume_keywords[i]

(* C15 witness: a job keyword with more than 3 qualifying resume keywords,  *)
(* where the best one is not the first in input order and two equally       *)
(* similar ones follow in input order.                                      *)
C15_Witness ==
    /\ SimilarReturned
    /\ job_keywords = <<w_java, w_test>>
    /\ args.resume_keywords = <<w_tests, w_tested, w_test, w_tests>>
    /\ args.similarity_threshold = similarity_threshold
    /\ DOMAIN result.value = {w_test}
    /\ result.value[w_test] = <<w_test, w_tests, w_tested>>

-----------------------------------------------------------------------------
(* Claims about categorize_keywords *)

CategorizeReturned ==
    pc = "done" /\ result.status = "returned"

StatedOrder ==
    <<"technical_skills", "tools_technologies", "soft_skills", "education_terms",
      "certifications", "languages">>

StatedTables ==
    <<technical_skills, tools_technologies, soft_skills, education_terms,
      certifications, languages>>

(* the first bucket, in the stated order, whose table has an entry inside *)
(* the lower-cased keyword; "other" when no table has one                 *)
StatedBucket(keyword) ==
    LET hits == {n \in DOMAIN StatedOrder :
                    \E e \in Range(StatedTables[n]) : IsSubstr(e, Lower(keyword))}
    IN  IF hits = {} THEN "other" ELSE StatedOrder[Min(hits)]

(* the keywords of a list that belong to bucket c, in the order of the list *)
KeywordsOf(keywords, c) ==
    LET InBucket(keyword) == StatedBucket(keyword) = c
    IN  SelectSeq(keywords, InBucket)

(* C16: every bucket holds exactly the input keywords whose first matching  *)
(* table, in the order technical_skills, tools_technologies, soft_skills,   *)
(* education_terms, certifications, languages, is its own ("other": no      *)
(* table matches), with their multiplicity and in input order; no other     *)
(* bucket receives a keyword.                                               *)
C16_FirstMatchingBucket ==
    CategorizeReturned =>
        /\ \A c \in Range(StatedOrder) \cup {"other"} :
               result.value[c] = KeywordsOf(job_keywords, c)
        /\ \A c \in DOMAIN result.value :
               c \notin Range(StatedOrder) \cup {"other"} => result.value[c] = <<>>
        /\ SumLen(result.value, DOMAIN result.value) = Len(job_keywords)

(* C16 witness: a keyword that two tables match goes to the earlier one,    *)
(* twice, and one that no table matches goes to "other".                    *)
C16_Witness ==
    /\ CategorizeReturned
    /\ job_keywords = <<w_django, w_team, w_django>>
    /\ AnyIn(tools_technologies, w_django)
    /\ result.value["technical_skills"] = <<w_django, w_django>>
    /\ result.value["tools_technologies"] = <<>>
    /\ result.value["other"] = <<w_team>>

-----------------------------------------------------------------------------
(* Claims about calculate_keyword_similarity *)

SimilarityReturned ==
    pc = "done" /\ result.status = "returned"

(* the stated rules, in their order, on the lower-cased and trimmed keywords: *)
(* whether each applies and the score it gives                                *)
StatedRules(k1, k2) ==
    LET ratio == SeqRatio(k1, k2)
        words1 == Range(Split(k1))
        words2 == Range(Split(k2))
        larger == IF Cardinality(words1) >= Cardinality(words2)
                  THEN Cardinality(words1) ELSE Cardinality(words2)
        difference == IF Len(k1) >= Len(k2) THEN Len(k1) - Len(k2) ELSE Len(k2) - Len(k1)
    IN  << [applies |-> k1 = k2, score |-> RInt(1)],
           [applies |-> Stem(k1) = Stem(k2), score |-> Rat(9, 10)],
           [applies |-> RLt(Rat(85, 100), ratio), score |-> RMul(ratio, Rat(8, 10))],
           [applies |-> words1 \cap words2 # {},
            score   |-> IF larger = 0 THEN RInt(0)
                        ELSE RMul(Rat(Cardinality(words1 \cap words2), larger), Rat(7, 10))],
           [applies |-> \/ Len(k1) <= 5 /\ StartsWith(k2, k1)
                        \/ Len(k2) <= 5 /\ StartsWith(k1, k2),
            score   |-> Rat(6, 10)],
           [applies |-> (IsSubstr(k1, k2) \/ IsSubstr(k2, k1)) /\ difference <= 4,
            score   |-> Rat(5, 10)],
           [applies |-> TRUE, score |-> RInt(0)] >>

(* the score of the first stated rule that applies *)
StatedSimilarity(keyword1, keyword2) ==
    LET rules == StatedRules(Strip(Lower(keyword1)), Strip(Lower(keyword2)))
    IN  rules[Min({n \in DOMAIN rules : rules[n].applies})].score

InUnitRange(x) ==
    RLe(RInt(0), x) /\ RLe(x, RInt(1))

(* C19 as stated: the result is the score of the first rule that applies,   *)
(* in the order equal, equal stems, sequence ratio, shared word, short      *)
(* prefix, close substring, otherwise 0; it lies in [0, 1] and is 1 for a   *)
(* non-empty keyword and itself.                                            *)
C19_FirstRuleScore ==
    SimilarityReturned =>
        /\ REq(result.value, StatedSimilarity(args.keyword1, args.keyword2))
        /\ InUnitRange(result.value)
        /\ (args.keyword1 = args.keyword2 /\ args.keyword1 # <<>>)
               => REq(result.value, RInt(1))

(* C19 amended: when either keyword is the empty string the result is 0;    *)
(* otherwise it is the score of the first rule that applies, in the stated  *)
(* order; it lies in [0, 1] and is 1 for a non-empty keyword and itself.    *)
C19_FirstRuleScoreOfNonEmpty ==
    SimilarityReturned =>
        /\ IF args.keyword1 = <<>> \/ args.keyword2 = <<>>
           THEN REq(result.value, RInt(0))
           ELSE REq(result.value, StatedSimilarity(args.keyword1, args.keyword2))
        /\ InUnitRange(result.value)
        /\ (args.keyword1 = args.keyword2 /\ args.keyword1 # <<>>)
               => REq(result.value, RInt(1))

(* C19 witness: two non-empty keywords with equal stems whose sequence      *)
(* ratio is above 0.85 too: the earlier rule decides, 0.9.                  *)
C19_Witness ==
    /\ SimilarityReturned
    /\ args.keyword1 = w_tests
    /\ args.keyword2 = w_test
    /\ RLt(Rat(85, 100), SeqRatio(w_tests, w_test))
    /\ REq(result.value, Rat(9, 10))

-----------------------------------------------------------------------------
(* Claims about _extract_section_text *)

SectionReturned ==
    pc = "done" /\ result.status = "returned"

(* the line holds a header synonym of one of the section types *)
HoldsHeaderOf(line, types) ==
    \E t \in types : \E i \in DOMAIN SECTION_KEYWORDS[t] :
        IsSubstr(SECTION_KEYWORDS[t][i], Strip(Lower(line)))

(* the text the statement gives: the non-blank lines after the first line   *)
(* with a header of the requested type, up to the first later line with a   *)
(* header of any type; empty when the requested header never occurs         *)
StatedSectionText(text, section_type) ==
    LET lines == SplitOn(text, "\n")
        requested == {section_type} \cap DOMAIN SECTION_KEYWORDS
        openers == {i \in DOMAIN lines : HoldsHeaderOf(lines[i], requested)}
    IN  IF openers = {}
        THEN <<>>
        ELSE LET open == Min(openers)
                 boundaries == {i \in DOMAIN lines :
                                   i > open /\ HoldsHeaderOf(lines[i], DOMAIN SECTION_KEYWORDS)}
                 stop == IF boundaries = {} THEN Len(lines) + 1 ELSE Min(boundaries)
                 Kept(i) == open < i /\ i < stop /\ Strip(lines[i]) # <<>>
                 kept == {i \in DOMAIN lines : Kept(i)}
                 IsKept(pair) == pair[1] \in kept
                 numbered == [i \in DOMAIN lines |-> <<i, lines[i]>>]
                 chosen == SelectSeq(numbered, IsKept)
             IN  Join([i \in DOMAIN chosen |-> chosen[i][2]], " ")

(* C20: the result is the non-blank lines that follow the opening header of *)
(* the requested section, in order, up to the first line holding a header   *)
(* synonym of any section type, the requested one included; nothing at or   *)
(* after that line is in the result, and the result is empty when the       *)
(* requested header never occurs.                                           *)
C20_SectionStopsAtAnyHeader ==
    SectionReturned =>
        result.value = StatedSectionText(resume_text, args.section_type)

-----------------------------------------------------------------------------
(* Claims about the recommendation triggers *)

(* the score condition stated for each per-component recommendation *)
StatedTrigger(sc) ==
    [contact           |-> RLt(sc.personal_info, RInt(60)),
     key_skills        |-> RLt(sc.keyword_match, RInt(40)),
     missing_keywords  |-> RLt(sc.keyword_match, RInt(60)),
     increase_usage    |-> RLt(sc.keyword_density, RInt(40)),
     reduce_repetition |-> RLt(RInt(95), sc.keyword_density),
     skills_section    |-> RLt(sc.skills_alignment, RInt(60)),
     quantify          |-> RLt(sc.experience_match, RInt(60)),
     location          |-> RLe(RInt(60), sc.personal_info) /\ RLt(sc.personal_info, RInt(80)),
     headers           |-> RLt(sc.formatting, RInt(70)),
     education         |-> RLt(sc.education_match, RInt(70))]

(* the messages generated from the component scores, before sort and cut *)
GeneratedIds ==
    {r.id : r \in Range(ComponentRecommendations(scores, resume_text, job_keywords))}

(* C21: each of the ten per-component recommendations is generated exactly  *)
(* when its own score condition holds.                                      *)
C21_TriggersIndependent ==
    RecommendationsReturned =>
        \A id \in DOMAIN StatedTrigger(scores) :
            id \in GeneratedIds <=> StatedTrigger(scores)[id]

-----------------------------------------------------------------------------
(* Claims about the section scores *)

SectionScoreReturned(component) ==
    pc = "done" /\ result.status = "returned" /\ result.component = component

(* the job keywords that hold one of the terms *)
Eligible(keywords, terms) ==
    LET Holds(k) == \E t \in terms : IsSubstr(t, Lower(k))
    IN  SelectSeq(keywords, Holds)

(* the number of keywords, by position, found in the lower-cased text *)
FoundIn(keywords, text) ==
    Cardinality({i \in DOMAIN keywords : IsSubstr(Lower(keywords[i]), Lower(text))})

(* C22: education_match is 75 when no job keyword holds 'degree',           *)
(* 'education', 'university', 'college' or 'graduate', with or without an   *)
(* education section; otherwise 50 when the section is missing and 100 x    *)
(* found / eligible when it is there.                                       *)
C22_EducationMatch ==
    SectionScoreReturned("education_match") =>
        \E eligible \in {Eligible(job_keywords, education_required_terms)},
           section \in {extract_section_text(resume_text, "education")} :
            REq(result.value,
                IF eligible = <<>> THEN RInt(75)
                ELSE IF section = <<>> THEN RInt(50)
                ELSE Rat(100 * FoundIn(eligible, section), Len(eligible)))

-----------------------------------------------------------------------------
(* Claims about the keyword_match component *)

(* _get_enhanced_keyword_analysis caught an exception and returned its default *)
AnalysisFellBack ==
    enhanced_keyword_match_score_raises(job_keywords, resume_text, nlp_raises[2])

(* C23 as stated: the keyword_match component of the returned breakdown is  *)
(* at most 90 and never above the score keyword_analysis reports.           *)
C23_ComponentAtMostAnalysisScore ==
    ScoreReturned =>
        /\ result.component_scores.keyword_match <= 900
        /\ RLe(Rat(result.component_scores.keyword_match, 10), result.keyword_analysis.score)

(* C23 amended: the unrounded keyword_match is 0 when job_keywords or       *)
(* resume_text is empty; otherwise, x being the score keyword_analysis       *)
(* reports when the analysis has not fallen back to its default, it is x for *)
(* x <= 80 and 80 + (x - 80) / 2 above, so at most 90 and at most x. The     *)
(* component the breakdown reports is that value rounded to one decimal, so  *)
(* it differs from it by at most 0.05.                                       *)
C23_KeywordMatchRescaled ==
    ScoreReturned =>
        \E km \in {scores.keyword_match}, x \in {result.keyword_analysis.score} :
            /\ (FalsyList(job_keywords) \/ FalsyText(resume_text)) => REq(km, RInt(0))
            /\ (~AnalysisFellBack /\ ~FalsyList(job_keywords) /\ ~FalsyText(resume_text))
                   => REq(km, IF RLe(x, RInt(80)) THEN x
                              ELSE RAdd(RInt(80), RDiv(RSub(x, RInt(80)), 2)))
            /\ ~AnalysisFellBack => RLe(km, x)
            /\ RLe(km, RInt(90))
            /\ RLe(RAbs(RSub(RInt(result.component_scores.keyword_match),
                             RMul(km, RInt(10)))),
                   Rat(1, 2))

(* C23 witness: a call whose match score is above 80, so that the rescaling *)
(* acts: 100 becomes 90.                                                    *)
C23_Witness ==
    /\ ScoreReturned
    /\ ~AnalysisFellBack
    /\ REq(result.keyword_analysis.score, RInt(100))
    /\ REq(scores.keyword_match, RInt(90))
    /\ result.component_scores.keyword_match = 900

-----------------------------------------------------------------------------
(* Claims about the formatting component *)

FormattingReturned ==
    pc = "done" /\ result.status = "returned" /\ result.component = "formatting"

(* C24: for every resume text the formatting component is one of 80, 85,    *)
(* 90, 95 and 100, so the Low recommendation of a formatting score below 70 *)
(* is never generated.                                                      *)
C24_FormattingAtLeast80 ==
    FormattingReturned =>
        /\ \E n \in {80, 85, 90, 95, 100} : REq(result.value, RInt(n))
        /\ result.recommendations = <<>>

C24_Witness ==
    /\ FormattingReturned
    /\ WordCount(resume_text) < 100
    /\ ~AnyIn(all_section_keywords, Lower(resume_text))
    /\ REq(result.value, RInt(80))
    /\ result.recommendations = <<>>


-----------------------------------------------------------------------------
(* Claims about the keyword_density recommendations *)

(* keyword occurrences per 100 resume words *)
Density ==
    Rat(100 * KeywordCount(job_keywords, Lower(resume_text)), WordCount(resume_text))

ReturnedIds ==
    {r.id : r \in Range(result.recommendations)}

DensityDefined ==
    /\ ScoreReturned
    /\ ~FalsyList(job_keywords)
    /\ ~FalsyText(resume_text)
    /\ WordCount(resume_text) > 0

(* C25: with non-empty inputs and keyword density d, the 'reduce keyword    *)
(* repetition' recommendation is generated exactly when 2.85 < d < 8.5, the *)
(* 'increase keyword usage' recommendation is generated when d > 14, and    *)
(* the two are never generated together.                                    *)
C25_ReduceRepetitionBand ==
    DensityDefined =>
        \E d \in {Density} :
            /\ "reduce_repetition" \in ReturnedIds
                   <=> (RLt(Rat(285, 100), d) /\ RLt(d, Rat(85, 10)))
            /\ RLt(RInt(14), d) => "increase_usage" \in ReturnedIds
            /\ ~({"reduce_repetition", "increase_usage"} \subseteq ReturnedIds)

C25_Witness ==
    /\ DensityDefined
    /\ RLt(Rat(285, 100), Density) /\ RLt(Density, RInt(3))
    /\ "reduce_repetition" \in ReturnedIds


-----------------------------------------------------------------------------
(* Claims about the default similarity threshold *)

DefaultSimilarReturned ==
    pc = "done" /\ result.status = "returned" /\ DOMAIN args = {"resume_keywords"}

(* the pairs <<job keyword, resume keyword>> the result reports *)
ReportedPairs ==
    {p \in (DOMAIN result.value) \X Range(args.resume_keywords) :
        p[2] \in Range(result.value[p[1]])}

(* equal after lower-casing and trimming, equal stems, a sequence ratio of  *)
(* at least 0.875, or the same set of words                                 *)
StatedReportable(keyword1, keyword2) ==
    LET k1 == Strip(Lower(keyword1))
        k2 == Strip(Lower(keyword2))
    IN  \/ k1 = k2
        \/ Stem(k1) = Stem(k2)
        \/ RLe(Rat(875, 1000), SeqRatio(k1, k2))
        \/ Range(Split(k1)) = Range(Split(k2))

(* C26: with the default threshold a reported pair never has the similarity *)
(* of the abbreviation-prefix rule (0.6) or of the substring rule (0.5); it *)
(* is equal after lower-casing and trimming, has equal stems, a sequence    *)
(* ratio of at least 0.875, or identical word sets.                         *)
C26_ReportedOnlyAbove ==
    DefaultSimilarReturned =>
        \A p \in ReportedPairs :
            /\ StatedReportable(p[1], p[2])
            /\ \E sim \in {calculate_keyword_similarity(p[1], p[2])} :
                   ~REq(sim, Rat(6, 10)) /\ ~REq(sim, Rat(5, 10))

C26_Witness ==
    /\ DefaultSimilarReturned
    /\ job_keywords = <<w_java>>
    /\ args.resume_keywords = <<w_javascript, w_java>>
    /\ REq(calculate_keyword_similarity(w_java, w_javascript), Rat(6, 10))
    /\ ReportedPairs = {<<w_java, w_java>>}


-----------------------------------------------------------------------------
(* Claims about header words in the section text *)

(* the lines _extract_section_text appends for a section type *)
SectionLinesOf(section_type) ==
    ScanLines(SplitOn(resume_text, "\n"), SECTION_KEYWORDS[section_type], 1, FALSE, <<>>)

SingleWordSynonyms ==
    {s \in Range(all_section_keywords) : " " \notin Range(s)}

HoldsHeaderWord(k) ==
    \E s \in SingleWordSynonyms : IsSubstr(s, Lower(k))

(* the keywords that hold no single-word header synonym *)
WithoutHeaderWord(keywords) ==
    SelectSeq(keywords, LAMBDA k : ~HoldsHeaderWord(k))

(* the section a component score reads *)
SectionTypeOf ==
    [skills_alignment |-> "skills", experience_match |-> "experience",
     education_match |-> "education"]

(* no line of the section text the called score has read holds a header synonym *)
NoHeaderInSectionLines ==
    \A line \in Range(SectionLinesOf(SectionTypeOf[result.component])) :
        ~AnyIn(all_section_keywords, Lower(line))

(* the three scores with only the keywords free of header words counted as found *)
HeaderWordsNeverFound ==
    /\ SectionScoreReturned("skills_alignment") =>
           \E section \in {extract_section_text(resume_text, "skills")} :
              section # <<>> =>
                 \E found \in {FoundIn(WithoutHeaderWord(job_keywords), section)} :
                    REq(result.value,
                        IF found = 0 THEN RInt(20)
                        ELSE IF found <= 3 THEN RInt(60)
                        ELSE IF found <= 6 THEN RInt(80)
                        ELSE RInt(95))
    /\ SectionScoreReturned("experience_match") =>
           \E section \in {extract_section_text(resume_text, "experience")},
              eligible \in {Eligible(job_keywords, experience_terms)} :
              (section # <<>> /\ eligible # <<>>) =>
                 REq(result.value,
                     Rat(100 * FoundIn(WithoutHeaderWord(eligible), section), Len(eligible)))
    /\ SectionScoreReturned("education_match") =>
           \E section \in {extract_section_text(resume_text, "education")},
              eligible \in {Eligible(job_keywords, education_required_terms)} :
              (section # <<>> /\ eligible # <<>>) =>
                 REq(result.value,
                     Rat(100 * FoundIn(WithoutHeaderWord(eligible), section), Len(eligible)))

AllEligibleHoldExperience ==
    \A k \in Range(Eligible(job_keywords, experience_terms)) :
        IsSubstr(Lower(w_Experience), Lower(k))

-----------------------------------------------------------------------------
(* Claims about the exact matches *)

(* lower(k) with all trailing 'e' characters removed, + 'ing' *)
GerundOf(k) ==
    RStripChar(Lower(k), "e") \o <<"i","n","g">>

AppendedSuffixes ==
    {<<>>, <<"s">>, <<"e","s">>, <<"i","n","g">>, <<"e","d">>, <<"e","r">>, <<"e","s","t">>}

(* C28: a job keyword k is in exact_matches if and only if lower(k), or     *)
(* lower(k) without its trailing 'e' characters + 'ing', is a substring of  *)
(* the lower-cased resume text; the variants that append a suffix to        *)
(* lower(k) add no match the plain substring test has not found.            *)
C28_ExactIffSubstringOrGerund ==
    MatchReturned =>
        \E text_lower \in {Lower(resume_text)} :
            /\ result.value.exact_matches \subseteq Range(job_keywords)
            /\ \A k \in Range(job_keywords) :
                   /\ k \in result.value.exact_matches
                          <=> (IsSubstr(Lower(k), text_lower) \/ IsSubstr(GerundOf(k), text_lower))
                   /\ \A suffix \in AppendedSuffixes :
                          IsSubstr(Lower(k) \o suffix, text_lower) => IsSubstr(Lower(k), text_lower)

C28_Witness ==
    /\ MatchReturned
    /\ resume_text = Join(<<w_processing, w_python>>, " ")
    /\ job_keywords = <<w_see, w_code>>
    /\ ~IsSubstr(w_see, Lower(resume_text))
    /\ result.value.exact_matches = {w_see}


-----------------------------------------------------------------------------
(* Claims about the match counts *)

(* C29: matched_job_keywords counts each job keyword at most once, so       *)
(* matched_job_keywords <= total_job_keywords and exact_count +             *)
(* similar_count <= total_job_keywords.                                     *)
C29_MatchedAtMostTotal ==
    (pc = "done" /\ result.status = "returned") =>
        /\ result.value.matched_job_keywords <= result.value.total_job_keywords
        /\ result.value.match_details.exact_count + result.value.match_details.similar_count
               <= result.value.total_job_keywords


-----------------------------------------------------------------------------
(* Claims about get_job_importance_keywords *)

(* C30: get_job_importance_keywords never raises and returns the list       *)
(* get_keywords returns for the same text with its default arguments; an    *)
(* empty or whitespace-only text gives the empty list.                      *)
C30_SameAsGetKeywords ==
    pc = "done" =>
        /\ result.status = "returned"
        /\ result.value = get_keywords(nlp_model, resume_text, min_len, TRUE, FALSE)
        /\ Strip(resume_text) = <<>> => result.value = <<>>


====
